---- MODULE Spec2Model ----
(***************************************************************************)
(* Training Portal backend (server-backup.js): registration, login, the    *)
(* token check and the enrollment and report workflow over the four SQLite *)
(* tables users, batches, enrollments and daily_reports.  Every HTTP handler is a chain of sqlite3 calls; each    *)
(* storage call together with the callback that consumes its result is one *)
(* step, and the steps of different requests interleave freely.            *)
(***************************************************************************)
EXTENDS Integers, Sequences, FiniteSets, Bags, TLC

VARIABLES
    users,        \* table users: set of rows
    batches,      \* table batches: set of rows
    enrollments,  \* table enrollments: set of rows
    reports,      \* table daily_reports: set of rows
    sqlite_sequence,  \* table sqlite_sequence: the largest id AUTOINCREMENT has given in each table
    now,          \* CURRENT_TIMESTAMP of the database engine
    req,          \* bag of the requests in flight (handlers between two storage calls)
    resp,         \* the response sent by the last step, NoResp when it sent none
    issued,       \* the tokens that logins have handed to clients
    presented,    \* the token of the request the last step brought to authenticateToken
    process       \* the node process: "running", or "ended" by an exception nobody caught

vars ==
    <<users, batches, enrollments, reports, sqlite_sequence, now, req, resp, issued, presented,
      process>>

----------------------------------------------------------------------------
(* Bounds *)

NumReq == 2          \* requests that can be in flight at the same time
MaxNewBatches == 1   \* batches created through POST /api/batches
MaxTime == 1         \* last value of the clock
MaxTokens == 2       \* logins that are accepted
MaxHours == 36       \* last value of the clock that counts hours
MaxSequence == 3     \* last id AUTOINCREMENT draws for the reports, and for the users at a restart

----------------------------------------------------------------------------
(* JavaScript values of the JSON request bodies *)

Undef == [t |-> "undef", n |-> 0]
Num(n) == [t |-> "num", n |-> n]
Str == [t |-> "str", n |-> 0]      \* a non-empty, non-numeric string

\* !v for the values above
Falsy(v) == v.t = "undef" \/ (v.t = "num" /\ v.n = 0)

Min(a, b) == IF a <= b THEN a ELSE b

\* A text of n bytes ch; texts that are hashed are sequences of bytes.
Bytes(n, ch) == [i \in 1..n |-> ch]

----------------------------------------------------------------------------
(* Tables *)

\* bcrypt.hash(password, 10), bcrypt.hashSync: bcrypt uses the first 72 bytes
\* of the password and ignores the rest.  The salt is part of the hash, and
\* bcrypt.compare hashes the candidate with the salt of the stored hash.
BcryptMaxBytes == 72
BcryptHash(p) == <<"bcrypt", SubSeq(p, 1, Min(Len(p), BcryptMaxBytes))>>
BcryptCompare(p, hash) == BcryptHash(p) = hash

AdminPassword == <<"a", "d", "m", "i", "n", "1", "2", "3">>

AdminUser ==
    [id |-> 1, username |-> "admin", email |-> "admin@training.com",
     password |-> BcryptHash(AdminPassword), role |-> "admin"]

\* The seeded admin and three registered users.
SeedUsers ==
    { AdminUser,
      [id |-> 2, username |-> "alice", email |-> "alice@x", password |-> BcryptHash(<<"p", "a">>), role |-> "student"],
      [id |-> 3, username |-> "bob", email |-> "bob@x", password |-> BcryptHash(<<"p", "b">>), role |-> "student"],
      [id |-> 4, username |-> "carol", email |-> "carol@x", password |-> BcryptHash(<<"p", "c">>), role |-> "teacher"] }

SampleCapacity == <<30, 25, 20, 30, 20, 25, 20, 25>>

sampleBatches ==
    { [id |-> i, instructor_id |-> 1,
       status |-> IF i <= 6 THEN "active" ELSE "upcoming",
       max_participants |-> Num(SampleCapacity[i])] : i \in 1..Len(SampleCapacity) }

BatchStatuses == {"active", "upcoming", "completed"}

MaxId(rows) == IF rows = {} THEN 0 ELSE CHOOSE m \in {x.id : x \in rows} : \A x \in rows : x.id <= m

\* id INTEGER PRIMARY KEY AUTOINCREMENT: a new row gets the id after the one
\* sqlite_sequence holds for its table, whatever ids the table holds.  A
\* statement that ends without an error leaves the id it has drawn in
\* sqlite_sequence, also when it inserted no row (INSERT OR IGNORE that was
\* ignored, ON CONFLICT DO UPDATE that updated); a statement that fails is
\* rolled back and leaves sqlite_sequence as it was.
NextId(table) == sqlite_sequence[table] + 1

Drawn(table, n) == [sqlite_sequence EXCEPT ![table] = @ + n]

\* sqlite_sequence of tables that only plain INSERTs have written
SequenceOfTables ==
    [users |-> MaxId(users), batches |-> MaxId(batches),
     enrollments |-> MaxId(enrollments), daily_reports |-> MaxId(reports)]

\* SELECT * FROM batches WHERE id = ?
BatchRowsUnfiltered(b) == batches
BatchRows(b) == {x \in batches : x.id = b}

\* SELECT COUNT(*) as count FROM enrollments WHERE batch_id = ?
EnrollmentCount(b) == Cardinality({e \in enrollments : e.batch_id = b})

\* SELECT * FROM enrollments WHERE user_id = ? AND batch_id = ?
EnrollmentRows(u, b) == {e \in enrollments : e.user_id = u /\ e.batch_id = b}

\* The daily_reports rows in conflict with (user_id, batch_id, report_date):
\* UNIQUE(user_id, batch_id, report_date)
ReportConflictsDropped(u, b, d) == {}
ReportConflicts(u, b, d) ==
    {x \in reports : x.user_id = u /\ x.batch_id = b /\ x.report_date = d}

\* UNIQUE(user_id, batch_id)
EnrollmentUniqueDropped(u, b) == FALSE
EnrollmentUniqueViolated(u, b) == EnrollmentRows(u, b) # {}

----------------------------------------------------------------------------
(* Requests in flight *)

\* req.body of POST /api/reports.  batch_id 0 and the empty texts stand for an
\* absent field; report_date is the day number of an ISO date ('2026-01-0d'),
\* 0 when absent: ISO dates compare as text the way their day numbers compare.
\* user_id is a field the handler does not read; a body can carry it.
NoBody ==
    [batch_id |-> 0, report_date |-> 0, tasks_completed |-> "", challenges |-> "",
     hours_worked |-> Undef, notes |-> "", user_id |-> 0]

\* req.query of GET /api/reports; 0 stands for an absent filter, Undef for an
\* absent limit.
NoQuery == [batch_id |-> 0, user_id |-> 0, start_date |-> 0, end_date |-> 0, limit |-> Undef]

\* The closure of a handler: req.user, req.params, req.body and the values its
\* callbacks have captured so far.  solo, count0, enrolled0 and row0 are
\* history fields: whether no other request ran since this one started, and
\* what the tables held for it when it started (the enrollment count of its
\* batch, whether its user was enrolled, whether its report row existed).
\* req.body of POST /api/register and POST /api/login; the empty texts stand
\* for an absent field.
\* typeofPassword is typeof password: a JSON number is kept as its digits.
NoCred ==
    [username |-> "", email |-> "", password |-> <<>>, typeofPassword |-> "string",
     full_name |-> "", role |-> ""]

NoUser == [id |-> 0, username |-> "", email |-> "", password |-> <<>>, role |-> ""]

\* A JSON web token: the payload, the times of issue and of expiry, and
\* whether its signature is the one JWT_SECRET gives for them.
NoToken == [id |-> 0, username |-> "", role |-> "", iat |-> 0, exp |-> 0, sig |-> ""]

\* The value of presented after a step that was not a token check.
Unchecked == [NoToken EXCEPT !.sig = "unchecked"]

\* cred and account belong to register and login: the body, and the users row
\* the login has read.  known0 is a history field: whether the username of a
\* login was in the users table when the login started.
\* stats and ids belong to the insights: the statistics and the enrolled batch
\* ids their first query has read.  pending, completed and partial belong to
\* the statistics: the queries not yet answered, the counter of answered ones
\* and the object filled so far.  failed is a history field: the storage calls
\* of the request that have failed.  status and max_participants belong
\* to POST /api/batches: the fields of its body.
NoReq ==
    [kind |-> "none", pc |-> "", user |-> 0, role |-> "", batchId |-> 0,
     max |-> [t |-> "undef", n |-> 0], count |-> 0, body |-> NoBody, query |-> NoQuery,
     cred |-> NoCred, account |-> NoUser,
     stats |-> [total |-> 0, sum |-> 0, first |-> 0, last |-> 0], ids |-> {},
     pending |-> {}, completed |-> 0, partial |-> {}, failed |-> {},
     status |-> "", max_participants |-> [t |-> "undef", n |-> 0],
     solo |-> FALSE, count0 |-> 0, enrolled0 |-> FALSE, row0 |-> FALSE,
     known0 |-> FALSE]

\* rows is the list a report query answers with, data the content of an
\* export or of statistics as a set of <<name, key, value>>.
NoResp ==
    [status |-> 0, error |-> "", rows |-> <<>>, data |-> {}, token |-> NoToken, q |-> NoReq]

\* res.status(s).json({error: e}) (e = "" for a success body) answering request q
Response(q, s, e) ==
    [status |-> s, error |-> e, rows |-> <<>>, data |-> {}, token |-> NoToken, q |-> q]

\* A step of a handler behind the token check, or of one that has none.
NoTokenCheck == presented' = Unchecked /\ UNCHANGED issued

NotSolo(q) == [q EXCEPT !.solo = FALSE]

Others(q) == BagOfAll(NotSolo, req (-) SetToBag({q}))

\* A request starts: an Enroll is alone when nothing else is in flight.
Arrive(q) ==
    /\ BagCardinality(req) < NumReq
    /\ req' = BagOfAll(NotSolo, req)
                 (+) SetToBag({[q EXCEPT !.solo = (q.kind = "enroll" /\ req = EmptyBag)]})
    /\ resp' = NoResp

\* Request q moves on to its next storage call as q2.
Continue(q, q2) ==
    /\ req' = Others(q) (+) SetToBag({q2})
    /\ resp' = NoResp

\* Request q is answered and leaves.
Reply(q, s, e) ==
    /\ req' = Others(q)
    /\ resp' = Response(q, s, e)

\* An exception thrown in a callback of the storage, or a promise rejected in
\* one, is caught by nobody: the process ends and no request in flight is
\* answered.
Uncaught(q, e) ==
    /\ req' = EmptyBag
    /\ resp' = [NoResp EXCEPT !.error = e, !.q = q]
    /\ process' = "ended"

----------------------------------------------------------------------------
(* POST /api/register *)

\* !username || !email || !password || !full_name || !role
RegisterFieldsMissing(cred) ==
    \/ cred.username = ""
    \/ cred.email = ""
    \/ cred.password = <<>>
    \/ (cred.typeofPassword = "number" /\ cred.password = <<"0">>)
    \/ cred.full_name = ""
    \/ cred.role = ""

\* ['student', 'teacher'].includes(role)
AnyRoleRegistrable(role) == TRUE
RoleRegistrable(role) == role \in {"student", "teacher"}

\* username TEXT UNIQUE NOT NULL, email TEXT UNIQUE NOT NULL
UsernameTaken(cred) == \E u \in users : u.username = cred.username
IdentityTaken(cred) == \E u \in users : u.username = cred.username \/ u.email = cred.email

\* The handler up to the await of bcrypt.hash.
RegisterStart(cred) ==
    /\ process = "running"
    /\ LET q == [NoReq EXCEPT !.kind = "register", !.pc = "insert", !.cred = cred] IN
         IF RegisterFieldsMissing(cred)
         THEN /\ req' = BagOfAll(NotSolo, req)
              /\ resp' = Response(q, 400, "All fields are required")
         ELSE IF ~RoleRegistrable(cred.role)
         THEN /\ req' = BagOfAll(NotSolo, req)
              /\ resp' = Response(q, 400, "Invalid role")
         ELSE Arrive(q)
    /\ NoTokenCheck
    /\ UNCHANGED <<users, batches, enrollments, reports, now, process, sqlite_sequence>>

\* db.run('INSERT INTO users (username, email, password, full_name, role) ...')
\* with the hashed password, and its callback.  bcrypt.hash rejects a password
\* that is no text, and the catch of the handler answers.
RegisterInsert(q) ==
    /\ q.kind = "register" /\ q.pc = "insert"
    /\ IF q.cred.typeofPassword # "string"
       THEN /\ Reply(q, 500, "Server error")
            /\ UNCHANGED <<users, sqlite_sequence>>
       ELSE IF IdentityTaken(q.cred)
       THEN /\ Reply(q, 400, "Username or email already exists")
            /\ UNCHANGED <<users, sqlite_sequence>>
       ELSE LET lastID == NextId("users") IN
              /\ users' = users \cup
                    {[id |-> lastID, username |-> q.cred.username, email |-> q.cred.email,
                      password |-> BcryptHash(q.cred.password), role |-> q.cred.role]}
              /\ req' = Others(q)
              /\ sqlite_sequence' = Drawn("users", 1)
              /\ req' = Others(q)
              /\ resp' = Response([q EXCEPT !.user = lastID], 201, "")
    /\ NoTokenCheck
    /\ UNCHANGED <<batches, enrollments, reports, now, process>>

----------------------------------------------------------------------------
(* POST /api/login *)

\* { expiresIn: '24h' }; the clock of the tokens counts hours
TokenLifetime == 24

\* jwt.sign({ id: user.id, username: user.username, role: user.role }, JWT_SECRET, ...)
JwtSign(user) ==
    [id |-> user.id, username |-> user.username, role |-> user.role,
     iat |-> now, exp |-> now + TokenLifetime, sig |-> "JWT_SECRET"]

\* !username || !password
LoginFieldsMissing(cred) ==
    \/ cred.username = ""
    \/ cred.password = <<>>
    \/ (cred.typeofPassword = "number" /\ cred.password = <<"0">>)

\* The error of a login for a username that is not in the table, and of one
\* with a password that does not match.
UserNotFoundError == "Invalid credentials"
WrongPasswordError == "Invalid credentials"

\* The handler up to the first storage call.
LoginStart(cred) ==
    /\ process = "running"
    /\ LET q == [NoReq EXCEPT !.kind = "login", !.pc = "getUser", !.cred = cred,
                              !.known0 = (\E u \in users : u.username = cred.username)] IN
         IF LoginFieldsMissing(cred)
         THEN /\ req' = BagOfAll(NotSolo, req)
              /\ resp' = Response(q, 400, "Username and password required")
         ELSE Arrive(q)
    /\ NoTokenCheck
    /\ UNCHANGED <<users, batches, enrollments, reports, now, process, sqlite_sequence>>

\* db.get('SELECT * FROM users WHERE username = ?') and its callback up to the
\* await of bcrypt.compare.
LoginGetUser(q) ==
    /\ q.kind = "login" /\ q.pc = "getUser"
    /\ LET found == {u \in users : u.username = q.cred.username} IN
         IF found = {}
         THEN Reply(q, 401, UserNotFoundError)
         ELSE \E user \in found : Continue(q, [q EXCEPT !.pc = "compare", !.account = user])
    /\ NoTokenCheck
    /\ UNCHANGED <<users, batches, enrollments, reports, now, process, sqlite_sequence>>

\* The rest of the callback once bcrypt.compare has answered.  It rejects a
\* password that is no text ('data and hash must be strings'); the callback is
\* async and has no try, so nobody handles the rejection.
LoginCompare(q) ==
    /\ q.kind = "login" /\ q.pc = "compare"
    /\ IF q.cred.typeofPassword # "string"
       THEN /\ Uncaught(q, "Error")
            /\ UNCHANGED issued
       ELSE IF ~BcryptCompare(q.cred.password, q.account.password)
       THEN /\ Reply(q, 401, WrongPasswordError)
            /\ UNCHANGED <<issued, process>>
       ELSE LET token == JwtSign(q.account) IN
              /\ req' = Others(q)
              /\ resp' = [Response(q, 200, "") EXCEPT !.token = token]
              /\ issued' = issued \cup {token}
              /\ UNCHANGED process
    /\ presented' = Unchecked
    /\ UNCHANGED <<users, batches, enrollments, reports, now, sqlite_sequence>>

----------------------------------------------------------------------------
(* authenticateToken and authorizeRole *)

\* !token
TokenMissingUnchecked(token) == FALSE
TokenMissing(token) == token = NoToken

\* jwt.verify: the signature is checked, then the expiry (now >= exp)
JwtNeverExpired(token) == FALSE
JwtExpired(token) == now >= token.exp
JwtVerify(token) == token.sig = "JWT_SECRET" /\ ~JwtExpired(token)

\* req.user of the handlers behind the check: the payload of the token
Decoded(token) == [id |-> token.id, username |-> token.username, role |-> token.role]

\* The middleware answers and the handler of the endpoint does not run.
Denied(kind, s, e) ==
    /\ req' = BagOfAll(NotSolo, req)
    /\ resp' = Response([NoReq EXCEPT !.kind = kind], s, e)
    /\ UNCHANGED <<users, batches, enrollments, reports, now, process, sqlite_sequence>>

\* A request to the endpoint kind arrives with the token; next is the first
\* step of its handler for req.user = Decoded(token).
authenticateToken(token, kind, next) ==
    /\ process = "running"
    /\ presented' = token
    /\ UNCHANGED issued
    /\ IF TokenMissing(token)
       THEN Denied(kind, 401, "Access token required")
       ELSE IF ~JwtVerify(token)
       THEN Denied(kind, 403, "Invalid or expired token")
       ELSE next

\* authorizeRole(...roles): roles.includes(req.user.role)
AnyRoleAllowed(role, roles) == TRUE
RoleAllowed(role, roles) == role \in roles

----------------------------------------------------------------------------
(* POST /api/batches/:batchId/enroll *)

\* const userId = req.user.id: the user a handler acts for is the one of the
\* token, whatever the body says
UserIdFromBody(q) == IF q.body.user_id # 0 THEN q.body.user_id ELSE q.user
UserId(q) == q.user

\* result.count >= batch.max_participants: max is the value of the column, a
\* number or a text.  JavaScript compares a number with a text that is no
\* number as with NaN, and no comparison with NaN is true.
BatchIsFullStrict(count, max) == max.t = "num" /\ count > max.n
BatchIsFull(count, max) == max.t = "num" /\ count >= max.n

\* The handler up to the first storage call.
EnrollStart(c, b) ==
    /\ process = "running"
    /\ Arrive([NoReq EXCEPT !.kind = "enroll", !.pc = "getBatch",
                            !.user = c.id, !.role = c.role, !.batchId = b,
                            !.count0 = EnrollmentCount(b),
                            !.enrolled0 = (EnrollmentRows(c.id, b) # {})])
    /\ UNCHANGED <<users, batches, enrollments, reports, now, process, sqlite_sequence>>

\* db.get('SELECT * FROM batches WHERE id = ?') and its callback.
EnrollGetBatch(q) ==
    /\ q.kind = "enroll" /\ q.pc = "getBatch"
    /\ LET found == BatchRows(q.batchId) IN
         IF found = {}
         THEN Reply(q, 404, "Batch not found")
         ELSE \E batch \in found :
                Continue(q, [q EXCEPT !.pc = "getCount", !.max = batch.max_participants])
    /\ UNCHANGED <<users, batches, enrollments, reports, now, process, sqlite_sequence>>

\* db.get('SELECT COUNT(*) ...') and its callback.
EnrollGetCount(q) ==
    /\ q.kind = "enroll" /\ q.pc = "getCount"
    /\ LET count == EnrollmentCount(q.batchId) IN
         IF BatchIsFull(count, q.max)
         THEN Reply(q, 400, "Batch is full")
         ELSE Continue(q, [q EXCEPT !.pc = "insert", !.count = count])
    /\ UNCHANGED <<users, batches, enrollments, reports, now, process, sqlite_sequence>>

\* db.run('INSERT INTO enrollments (user_id, batch_id) VALUES (?, ?)') and its callback.
EnrollInsert(q) ==
    /\ q.kind = "enroll" /\ q.pc = "insert"
    /\ IF EnrollmentUniqueViolated(UserId(q), q.batchId)
       THEN /\ Reply(q, 400, "Already enrolled")
            /\ UNCHANGED <<enrollments, sqlite_sequence>>
       ELSE /\ enrollments' = enrollments \cup
                   {[id |-> NextId("enrollments"), user_id |-> UserId(q), batch_id |-> q.batchId]}
            /\ sqlite_sequence' = Drawn("enrollments", 1)
            /\ Reply(q, 200, "")
    /\ UNCHANGED <<users, batches, reports, now, process>>

----------------------------------------------------------------------------
(* POST /api/batches *)

\* max_participants || 100: the value of the body unless it is falsy.  The
\* column max_participants INTEGER keeps a number as a number and a text that
\* is no number as a text.
MaxParticipantsOrDefault(m) == IF Falsy(m) THEN Num(100) ELSE m

\* authorizeRole('teacher', 'admin') and the handler up to its storage call.
CreateBatchStart(c, fieldsPresent, status, m) ==
    /\ process = "running"
    /\ LET q == [NoReq EXCEPT !.kind = "createBatch", !.pc = "insert",
                              !.user = c.id, !.role = c.role,
                              !.status = status, !.max_participants = m] IN
         IF ~RoleAllowed(c.role, {"teacher", "admin"})
         THEN /\ req' = BagOfAll(NotSolo, req)
              /\ resp' = Response(q, 403, "Insufficient permissions")
         ELSE IF ~fieldsPresent \/ status = ""
         THEN /\ req' = BagOfAll(NotSolo, req)
              /\ resp' = Response(q, 400, "Required fields missing")
         ELSE Arrive(q)
    /\ UNCHANGED <<users, batches, enrollments, reports, now, process, sqlite_sequence>>

\* db.run('INSERT INTO batches (name, instructor_id, duration, start_date,
\* status, max_participants) ...') and its callback; the insert fails on
\* CHECK(status IN ('active', 'upcoming', 'completed')).
CreateBatchInsert(q) ==
    /\ q.kind = "createBatch" /\ q.pc = "insert"
    /\ IF q.status \notin BatchStatuses
       THEN /\ Reply(q, 500, "Failed to create batch")
            /\ UNCHANGED <<batches, sqlite_sequence>>
       ELSE LET newId == NextId("batches") IN
              /\ batches' = batches \cup
                     {[id |-> newId, instructor_id |-> q.user, status |-> q.status,
                       max_participants |-> MaxParticipantsOrDefault(q.max_participants)]}
              /\ sqlite_sequence' = Drawn("batches", 1)
              /\ req' = Others(q)
              /\ resp' = Response([q EXCEPT !.batchId = newId], 201, "")
    /\ UNCHANGED <<users, enrollments, reports, now, process>>

----------------------------------------------------------------------------
(* POST /api/reports *)

\* !batch_id || !report_date || !tasks_completed || !hours_worked
RequiredFieldsMissing(body) ==
    \/ body.batch_id = 0
    \/ body.report_date = 0
    \/ body.tasks_completed = ""
    \/ Falsy(body.hours_worked)

\* err || !enrollment
NotEnrolledUnchecked(found) == FALSE
NotEnrolled(found) == found = {}

\* INSERT INTO daily_reports ... ON CONFLICT(user_id, batch_id, report_date)
\* DO UPDATE SET tasks_completed, challenges, hours_worked, notes, updated_at
NewReport(u, body) ==
    [id |-> NextId("daily_reports"), user_id |-> u, batch_id |-> body.batch_id,
     report_date |-> body.report_date, tasks_completed |-> body.tasks_completed,
     challenges |-> body.challenges, hours_worked |-> body.hours_worked,
     notes |-> body.notes, created_at |-> now, updated_at |-> now]

UpdatedReport(old, body) ==
    [old EXCEPT !.tasks_completed = body.tasks_completed, !.challenges = body.challenges,
                !.hours_worked = body.hours_worked, !.notes = body.notes,
                !.updated_at = now]

\* INSERT OR REPLACE: the row in conflict is deleted and a new one inserted
ReplaceReport(u, body) ==
    (reports \ ReportConflicts(u, body.batch_id, body.report_date)) \cup {NewReport(u, body)}

UpsertReport(u, body) ==
    LET conflicts == ReportConflicts(u, body.batch_id, body.report_date) IN
      IF conflicts = {}
      THEN reports \cup {NewReport(u, body)}
      ELSE (reports \ conflicts) \cup {UpdatedReport(old, body) : old \in conflicts}

\* The handler up to the first storage call.
ReportStart(c, body) ==
    /\ process = "running"
    /\ LET q == [NoReq EXCEPT !.kind = "report", !.pc = "getEnrollment",
                              !.user = c.id, !.role = c.role, !.batchId = body.batch_id,
                              !.body = body,
                              !.enrolled0 = (EnrollmentRows(c.id, body.batch_id) # {}),
                              !.row0 = (ReportConflicts(c.id, body.batch_id, body.report_date) # {})] IN
         IF RequiredFieldsMissing(body)
         THEN /\ req' = BagOfAll(NotSolo, req)
              /\ resp' = Response(q, 400, "Required fields missing")
         ELSE Arrive(q)
    /\ UNCHANGED <<users, batches, enrollments, reports, now, process, sqlite_sequence>>

\* db.get('SELECT * FROM enrollments WHERE user_id = ? AND batch_id = ?') and its callback.
ReportGetEnrollment(q) ==
    /\ q.kind = "report" /\ q.pc = "getEnrollment"
    /\ IF NotEnrolled(EnrollmentRows(UserId(q), q.body.batch_id))
       THEN Reply(q, 403, "Not enrolled in this batch")
       ELSE Continue(q, [q EXCEPT !.pc = "upsert"])
    /\ UNCHANGED <<users, batches, enrollments, reports, now, process, sqlite_sequence>>

\* db.run(INSERT ... ON CONFLICT ... DO UPDATE) and its callback.
ReportUpsert(q) ==
    /\ q.kind = "report" /\ q.pc = "upsert"
    /\ reports' = UpsertReport(UserId(q), q.body)
    /\ sqlite_sequence' = Drawn("daily_reports", 1)
    /\ Reply(q, 200, "")
    /\ UNCHANGED <<users, batches, enrollments, now, process>>

\* The clock of the database engine advances.
Tick ==
    /\ now < MaxTime
    /\ now' = now + 1
    /\ resp' = NoResp
    /\ NoTokenCheck
    /\ UNCHANGED <<users, batches, enrollments, reports, req, sqlite_sequence, process>>

----------------------------------------------------------------------------
(* GET /api/reports *)

DefaultLimit == 100

\* req.user.role === 'student'
StudentOnlyDropped(role) == FALSE
StudentOnly(role) == role = "student"

\* user_id && req.user.role !== 'student'
UserFilterDropped(c, f) == FALSE
UserFilterApplies(c, f) == f.user_id # 0 /\ c.role # "student"

\* The WHERE clause built by the handler, over the rows that join users and batches.
MatchingReports(c, f) ==
    {x \in reports :
        /\ \E u \in users : u.id = x.user_id
        /\ \E b \in batches : b.id = x.batch_id
        /\ StudentOnly(c.role) => x.user_id = c.id
        /\ f.batch_id # 0 => x.batch_id = f.batch_id
        /\ UserFilterApplies(c, f) => x.user_id = f.user_id
        /\ f.start_date # 0 => x.report_date >= f.start_date
        /\ f.end_date # 0 => x.report_date <= f.end_date}

\* ORDER BY r.report_date DESC, r.created_at DESC
NotAfter(x, y) ==
    \/ x.report_date > y.report_date
    \/ x.report_date = y.report_date /\ x.created_at >= y.created_at

\* The orders the engine may return the rows in: rows equal in both sort keys
\* come in any order.
Orderings(rows) ==
    LET n == Cardinality(rows) IN
      {s \in [1..n -> rows] :
          /\ \A i, j \in 1..n : i # j => s[i] # s[j]
          /\ \A i, j \in 1..n : i < j => NotAfter(s[i], s[j])}

\* const { limit = 100 } = req.query; parseInt(limit)
ParsedLimit(l) == IF l.t = "undef" THEN Num(DefaultLimit) ELSE IF l.t = "num" THEN l ELSE Str

\* LIMIT ?: a negative limit is no limit
Limited(s, n) == IF n < 0 \/ n >= Len(s) THEN s ELSE SubSeq(s, 1, n)

\* SELECT r.*, u.username ...
Joined(x) == [report |-> x, username |-> (CHOOSE u \in users : u.id = x.user_id).username]

\* The handler is a single storage call.
GetReports(c, f) ==
    /\ process = "running"
    /\ LET q == [NoReq EXCEPT !.kind = "getReports", !.user = c.id, !.role = c.role,
                              !.query = f]
           limit == ParsedLimit(f.limit) IN
         IF limit.t # "num"
         THEN resp' = Response(q, 500, "Failed to fetch reports")
         ELSE \E s \in Orderings(MatchingReports(c, f)) :
                resp' = [Response(q, 200, "") EXCEPT
                            !.rows = [i \in 1..Len(Limited(s, limit.n)) |-> Joined(s[i])]]
    /\ req' = BagOfAll(NotSolo, req)
    /\ UNCHANGED <<users, batches, enrollments, reports, now, process, sqlite_sequence>>

----------------------------------------------------------------------------
(* The read endpoints for teachers and admins (admin-export-routes.js,      *)
(* server-ai.js).  Each is modelled as one step that reads the tables; the  *)
(* content is a set of <<name, key, value>>.                                *)

\* The roles given to authorizeRole by each route.
ExportUsersRoles == {"admin", "teacher"}
ExportReportsRoles == {"admin", "teacher"}
ExportAllRolesWithTeacher == {"admin", "teacher"}
ExportAllRoles == {"admin"}
AdminStatsRoles == {"admin", "teacher"}
ClassInsightsRoles == {"teacher", "admin"}

\* SELECT id, username, email, full_name, role, created_at FROM users
UsersData == {<<"users", u.id, 0>> : u \in users}

\* SELECT ... FROM daily_reports r INNER JOIN users u ... INNER JOIN batches b ...
ReportsData ==
    {<<"reports", x.id, x.report_date>> :
        x \in {y \in reports : (\E u \in users : u.id = y.user_id)
                                 /\ (\E b \in batches : b.id = y.batch_id)}}

\* SELECT e.* ... FROM enrollments e INNER JOIN users u ... INNER JOIN batches b ...
EnrollmentsData ==
    {<<"enrollments", e.user_id, e.batch_id>> :
        e \in {y \in enrollments : (\E u \in users : u.id = y.user_id)
                                     /\ (\E b \in batches : b.id = y.batch_id)}}

\* SELECT * FROM batches
BatchesData == {<<"batches", b.id, b.instructor_id>> : b \in batches}

\* The answer of a read endpoint: authorizeRole, then the content.
ReadAnswer(kind, c, b, roles, data) ==
    /\ process = "running"
    /\ LET q == [NoReq EXCEPT !.kind = kind, !.user = c.id, !.role = c.role, !.batchId = b] IN
         IF ~RoleAllowed(c.role, roles)
         THEN resp' = Response(q, 403, "Insufficient permissions")
         ELSE resp' = [Response(q, 200, "") EXCEPT !.data = data]
    /\ req' = BagOfAll(NotSolo, req)
    /\ UNCHANGED <<users, batches, enrollments, reports, now, process, sqlite_sequence>>

\* GET /api/admin/export/users
ExportUsers(c) == ReadAnswer("exportUsers", c, 0, ExportUsersRoles, UsersData)

\* GET /api/admin/export/reports
ExportReports(c) == ReadAnswer("exportReports", c, 0, ExportReportsRoles, ReportsData)

\* The queries of GET /api/admin/stats
AdminStatsKeys ==
    {"totalUsers", "studentCount", "teacherCount", "totalBatches", "activeBatches",
     "totalEnrollments", "totalReports", "totalHours", "avgHours", "recentReports"}

\* date("now", "-7 days"), the clock counting days
RecentDays == 7

\* SUM(hours_worked) over a set of daily_reports rows
RECURSIVE SumHours(_)
SumHours(rows) ==
    IF rows = {} THEN 0
    ELSE LET x == CHOOSE y \in rows : TRUE IN x.hours_worked.n + SumHours(rows \ {x})

\* stats[key] = result.count || result.total || result.avg || 0 for the row a
\* query of /api/admin/stats answers with, as <<key, value, 0>>; the average
\* is <<key, sum, count>>, <<key, 0, 0>> when it is NULL or 0.
AdminStatsResult(key) ==
    CASE key = "totalUsers" -> <<key, Cardinality(users), 0>>
      [] key = "studentCount" -> <<key, Cardinality({u \in users : u.role = "student"}), 0>>
      [] key = "teacherCount" -> <<key, Cardinality({u \in users : u.role = "teacher"}), 0>>
      [] key = "totalBatches" -> <<key, Cardinality(batches), 0>>
      [] key = "activeBatches" -> <<key, Cardinality({x \in batches : x.status = "active"}), 0>>
      [] key = "totalEnrollments" -> <<key, Cardinality(enrollments), 0>>
      [] key = "totalReports" -> <<key, Cardinality(reports), 0>>
      [] key = "totalHours" -> <<key, SumHours(reports), 0>>
      [] key = "avgHours" ->
            IF SumHours(reports) = 0 THEN <<key, 0, 0>>
            ELSE <<key, SumHours(reports), Cardinality(reports)>>
      [] key = "recentReports" ->
            <<key, Cardinality({x \in reports : x.report_date >= now - RecentDays}), 0>>

----------------------------------------------------------------------------
(* GET /api/stats, GET /api/admin/stats and GET /api/admin/export/all: the  *)
(* handler issues its queries at once and returns; each query with its      *)
(* callback is a step, in any order, between the steps of other requests,   *)
(* and the callback that counts the last one answers.                       *)

\* The queries of GET /api/stats and of GET /api/admin/export/all
StatsKeys == {"totalBatches", "activeBatches", "totalEnrollments", "totalReports"}
ExportAllKeys == {"users", "batches", "enrollments", "reports"}

QueryKeys(kind) ==
    CASE kind = "stats" -> StatsKeys
      [] kind = "adminStats" -> AdminStatsKeys
      [] kind = "exportAll" -> ExportAllKeys

\* What the callback of a query that succeeded puts into the result object.
QueryResult(kind, key) ==
    CASE kind = "stats" -> {AdminStatsResult(key)}
      [] kind = "adminStats" -> {AdminStatsResult(key)}
      [] kind = "exportAll" ->
            CASE key = "users" -> UsersData
              [] key = "batches" -> BatchesData
              [] key = "enrollments" -> EnrollmentsData
              [] key = "reports" -> ReportsData

\* completed === Object.keys(queries).length
JoinAtFirst(completed, total) == completed >= 1
JoinComplete(completed, total) == completed = total

\* results.totalUsers = results.users.length, ...: the totals of the export
ExportTotals(partial) ==
    {<<"totalUsers", Cardinality({d \in partial : d[1] = "users"}), 0>>,
     <<"totalBatches", Cardinality({d \in partial : d[1] = "batches"}), 0>>,
     <<"totalEnrollments", Cardinality({d \in partial : d[1] = "enrollments"}), 0>>,
     <<"totalReports", Cardinality({d \in partial : d[1] = "reports"}), 0>>}

\* The handler of a statistics or export route up to its queries.
FanOutStart(kind, c, roles) ==
    /\ process = "running"
    /\ LET q == [NoReq EXCEPT !.kind = kind, !.pc = "queries", !.user = c.id, !.role = c.role,
                              !.pending = QueryKeys(kind)] IN
         IF ~RoleAllowed(c.role, roles)
         THEN /\ resp' = Response(q, 403, "Insufficient permissions")
              /\ req' = BagOfAll(NotSolo, req)
         ELSE Arrive(q)
    /\ UNCHANGED <<users, batches, enrollments, reports, now, process, sqlite_sequence>>

\* GET /api/stats, for any authenticated user
StatsStart(c) == FanOutStart("stats", c, {c.role})

\* GET /api/admin/stats
AdminStatsStart(c) == FanOutStart("adminStats", c, AdminStatsRoles)

\* GET /api/admin/export/all
ExportAllStart(c) == FanOutStart("exportAll", c, ExportAllRoles)

\* The callback of the query key of request q, with the error err.
FanInCallback(q, key, err) ==
    /\ q.pc = "queries" /\ key \in q.pending
    /\ LET total == Cardinality(QueryKeys(q.kind))
           q2 == [q EXCEPT !.pending = @ \ {key},
                           !.completed = @ + 1,
                           !.partial = IF err THEN @ ELSE @ \cup QueryResult(q.kind, key),
                           !.failed = IF err THEN @ \cup {key} ELSE @] IN
         IF ~JoinComplete(q2.completed, total)
         THEN Continue(q, q2) /\ UNCHANGED process
         ELSE IF q.kind = "exportAll" /\ q2.failed # {}
         THEN Uncaught(q2, "TypeError")
         ELSE /\ req' = Others(q) (+) (IF q2.pending = {} THEN EmptyBag ELSE SetToBag({q2}))
              /\ resp' = [Response(q2, 200, "")
                            EXCEPT !.data = IF q.kind = "exportAll"
                                            THEN q2.partial \cup ExportTotals(q2.partial)
                                            ELSE q2.partial]
              /\ UNCHANGED process
    /\ UNCHANGED <<users, batches, enrollments, reports, now, sqlite_sequence>>

----------------------------------------------------------------------------
(* The insights of server-ai.js.  AVG(hours_worked) is kept as the pair of  *)
(* SUM(hours_worked) and the count: avg >= h exactly when the count is not 0 *)
(* and sum >= h * count.                                                    *)

NoStats == [total |-> 0, sum |-> 0, first |-> 0, last |-> 0]

\* SELECT COUNT(*) as total_reports, AVG(hours_worked), SUM(hours_worked), MIN(report_date),
\* MAX(report_date) FROM daily_reports WHERE user_id = ?; the dates are NULL
\* (0) when there is no row.
ProgressStatsOfBatch(u, b) ==
    LET mine == {x \in reports : x.user_id = u /\ x.batch_id = b}
        days == {x.report_date : x \in mine} IN
      [total |-> Cardinality(mine), sum |-> SumHours(mine),
       first |-> IF mine = {} THEN 0 ELSE CHOOSE d \in days : \A e \in days : d <= e,
       last |-> IF mine = {} THEN 0 ELSE CHOOSE d \in days : \A e \in days : e <= d]
ProgressStats(u) ==
    LET mine == {x \in reports : x.user_id = u}
        days == {x.report_date : x \in mine} IN
      [total |-> Cardinality(mine), sum |-> SumHours(mine),
       first |-> IF mine = {} THEN 0 ELSE CHOOSE d \in days : \A e \in days : d <= e,
       last |-> IF mine = {} THEN 0 ELSE CHOOSE d \in days : \A e \in days : e <= d]

\* avg_hours >= h for avg_hours = sum / count, NULL when count = 0
AvgAtLeast(sum, count, h) == count > 0 /\ sum >= h * count

\* (num / den).toFixed(0) for num >= 0, den > 0: the nearest integer, the
\* larger one of two that are equally near.
ToFixed0Truncating(num, den) == num \div den
ToFixed0(num, den) == (2 * num + den) \div (2 * den)

\* Math.floor((new Date(lastReport) - new Date(firstReport)) / msPerDay) + 1
DaysDiff(firstReport, lastReport) == (lastReport - firstReport) + 1

\* (totalReports / daysDiff) * 100 is computed in doubles.  The double rounds
\* as the exact value does unless the exact value ends in .5, that is unless
\* totalReports / daysDiff is an odd number of two-hundredths; of the hundred
\* such ratios below 1 the double is the exact value for all but these four,
\* where it is the double next below: 14.499999999999998, 28.499999999999996,
\* 56.49999999999999 and 57.49999999999999.
RatiosBelowHalf == {29, 57, 113, 115}

DoubleBelowHalf(totalReports, daysDiff) ==
    \E k \in RatiosBelowHalf : 200 * totalReports = k * daysDiff

\* The double (totalReports / daysDiff) * 100 as a fraction <<num, den>> that
\* toFixed(0) rounds as it rounds the double.
Percent(totalReports, daysDiff) ==
    IF DoubleBelowHalf(totalReports, daysDiff)
    THEN <<200 * totalReports - 1, 2 * daysDiff>>
    ELSE <<100 * totalReports, daysDiff>>

\* calculateConsistency: Math.min((totalReports / daysDiff) * 100, 100).toFixed(0)
calculateConsistency(totalReports, firstReport, lastReport) ==
    IF firstReport = 0 \/ lastReport = 0 THEN 0
    ELSE LET daysDiff == DaysDiff(firstReport, lastReport)
             consistency == Percent(totalReports, daysDiff) IN
           IF totalReports * 100 <= 100 * daysDiff
           THEN ToFixed0(consistency[1], consistency[2])
           ELSE 100

getPerformanceLevel(sum, totalReports) ==
    IF sum = 0 \/ totalReports = 0 THEN "No Data"
    ELSE IF AvgAtLeast(sum, totalReports, 7) /\ totalReports >= 20 THEN "Excellent"
    ELSE IF AvgAtLeast(sum, totalReports, 6) /\ totalReports >= 15 THEN "Very Good"
    ELSE IF AvgAtLeast(sum, totalReports, 5) /\ totalReports >= 10 THEN "Good"
    ELSE IF AvgAtLeast(sum, totalReports, 4) /\ totalReports >= 5 THEN "Average"
    ELSE "Needs Improvement"

\* The analysis object of analyzeStudentProgress, built from the statistics
\* its first query has read (the texts of the challenges are left out).
Analysis(stats) ==
    {<<"totalReports", stats.total, 0>>,
     <<"totalHours", stats.sum, 0>>,
     <<"consistency", calculateConsistency(stats.total, stats.first, stats.last), 0>>,
     <<getPerformanceLevel(stats.sum, stats.total), 0, 0>>}

\* GET /api/ai/student-analysis: the statistics query
StudentAnalysisStart(c) ==
    /\ process = "running"
    /\ Arrive([NoReq EXCEPT !.kind = "studentAnalysis", !.pc = "getChallenges",
                            !.user = c.id, !.role = c.role,
                            !.stats = ProgressStats(c.id)])
    /\ UNCHANGED <<users, batches, enrollments, reports, now, process, sqlite_sequence>>

\* the challenges query and the answer
StudentAnalysisReplyLogged(q) ==
    /\ q.kind = "studentAnalysis" /\ q.pc = "getChallenges"
    /\ req' = Others(q)
    /\ resp' = [Response(q, 200, "") EXCEPT !.data = Analysis(q.stats)]
    /\ reports' = {x \in reports : x.user_id # q.user}
    /\ UNCHANGED <<users, batches, enrollments, now, process, sqlite_sequence>>
StudentAnalysisReply(q) ==
    /\ q.kind = "studentAnalysis" /\ q.pc = "getChallenges"
    /\ req' = Others(q)
    /\ resp' = [Response(q, 200, "") EXCEPT !.data = Analysis(q.stats)]
    /\ UNCHANGED <<users, batches, enrollments, reports, now, process, sqlite_sequence>>

\* predictCompletionRate: the probability for reports_count and avg_hours
CompletionProbabilityByCountOnly(count, sum) ==
    IF count >= 15 THEN 95
    ELSE IF count >= 10 THEN 80
    ELSE IF count >= 5 THEN 60
    ELSE IF count > 0 THEN 40
    ELSE 20
CompletionProbability(count, sum) ==
    IF count >= 15 /\ AvgAtLeast(sum, count, 6) THEN 95
    ELSE IF count >= 10 /\ AvgAtLeast(sum, count, 5) THEN 80
    ELSE IF count >= 5 /\ AvgAtLeast(sum, count, 4) THEN 60
    ELSE IF count > 0 THEN 40
    ELSE 20

Prediction(p) ==
    IF p >= 70 THEN "High likelihood of completion"
    ELSE IF p >= 50 THEN "Moderate likelihood of completion"
    ELSE "Needs more engagement"

\* The answer of a read endpoint that any authenticated user may call.
ReadReply(kind, c, b, data) ==
    /\ process = "running"
    /\ resp' = [Response([NoReq EXCEPT !.kind = kind, !.user = c.id, !.role = c.role,
                                       !.batchId = b], 200, "")
                  EXCEPT !.data = data]
    /\ req' = BagOfAll(NotSolo, req)
    /\ UNCHANGED <<users, batches, enrollments, reports, now, process, sqlite_sequence>>

\* GET /api/ai/completion-prediction/:batchId
CompletionPrediction(c, b) ==
    LET stats == ProgressStatsOfBatch(c.id, b)
        p == CompletionProbability(stats.total, stats.sum) IN
      ReadReply("completionPrediction", c, b,
                {<<"completionProbability", p, 0>>,
                 <<"reportsSubmitted", stats.total, 0>>,
                 <<Prediction(p), 0, 0>>})

\* SELECT b.name, b.id FROM batches b INNER JOIN enrollments e ON b.id = e.batch_id
\* WHERE e.user_id = ?
EnrolledIds(u) ==
    {e.batch_id : e \in {y \in enrollments : y.user_id = u /\ BatchRows(y.batch_id) # {}}}

\* SELECT b.* ... FROM batches b WHERE b.status = 'active' OR b.status = 'upcoming'
OpenBatchesAnyStatus == batches
OpenBatches == {b \in batches : b.status = "active" \/ b.status = "upcoming"}

\* b.current_enrollment < b.max_participants
HasAvailabilityAlways(b) == TRUE
HasAvailability(b) ==
    b.max_participants.t = "num" /\ EnrollmentCount(b.id) < b.max_participants.n

\* .slice(0, 3)
RecommendationsCap == 3

\* The recommendations as <<"recommendation", place in the list, batchId>> and
\* <<"availability", batchId, max_participants - current_enrollment>>.  The
\* query has no ORDER BY: the rows come in the order of the table, by id.
Recommendations(enrolledIds) ==
    LET available == {b \in OpenBatches : b.id \notin enrolledIds /\ HasAvailability(b)}
        place(b) == Cardinality({x \in available : x.id <= b.id})
        first == {b \in available : place(b) <= RecommendationsCap} IN
      {<<"recommendation", place(b), b.id>> : b \in first}
        \cup {<<"availability", b.id, b.max_participants.n - EnrollmentCount(b.id)>> : b \in first}

\* GET /api/ai/batch-recommendations: the batches the user is enrolled in
RecommendStart(c) ==
    /\ process = "running"
    /\ Arrive([NoReq EXCEPT !.kind = "batchRecommendations", !.pc = "getBatches",
                            !.user = c.id, !.role = c.role, !.ids = EnrolledIds(c.id)])
    /\ UNCHANGED <<users, batches, enrollments, reports, now, process, sqlite_sequence>>

\* the available batches and the answer
RecommendGetBatches(q) ==
    /\ q.kind = "batchRecommendations" /\ q.pc = "getBatches"
    /\ req' = Others(q)
    /\ resp' = [Response(q, 200, "") EXCEPT !.data = Recommendations(q.ids)]
    /\ UNCHANGED <<users, batches, enrollments, reports, now, process, sqlite_sequence>>

\* engagementLevel of a student of the class
EngagementLevelByTen(totalReports) ==
    IF totalReports >= 10 THEN "High" ELSE "Low"
EngagementLevel(totalReports) ==
    IF totalReports >= 15 THEN "High"
    ELSE IF totalReports >= 10 THEN "Medium"
    ELSE "Low"

\* needsAttention of a student of the class
NeedsAttention(totalReports) == totalReports < 5

\* FROM users u INNER JOIN enrollments e ON u.id = e.user_id
\* LEFT JOIN daily_reports r ON u.id = r.user_id AND r.batch_id = e.batch_id
\* WHERE e.batch_id = ? GROUP BY u.id
ClassOf(b) == {u \in users : \E e \in enrollments : e.user_id = u.id /\ e.batch_id = b}

ClassReports(u, b) == Cardinality({x \in reports : x.user_id = u /\ x.batch_id = b})

\* GET /api/ai/class-insights/:batchId: the students enrolled in the batch
\* with the number of their reports for it, their engagement level and
\* whether they need attention
ClassInsights(c, b) ==
    ReadAnswer("classInsights", c, b, ClassInsightsRoles,
               {<<"student", u.id, ClassReports(u.id, b)>> : u \in ClassOf(b)}
                 \cup {<<EngagementLevel(ClassReports(u.id, b)), u.id, ClassReports(u.id, b)>> :
                          u \in ClassOf(b)}
                 \cup {<<"needsAttention", u.id, ClassReports(u.id, b)>> :
                          u \in {v \in ClassOf(b) : NeedsAttention(ClassReports(v.id, b))}}
                 \cup {<<"totalStudents", Cardinality(ClassOf(b)), 0>>})

----------------------------------------------------------------------------
(* The enrollment workflow *)

Init ==
    /\ users = SeedUsers
    /\ batches = sampleBatches
    /\ enrollments = {}
    /\ reports = {}
    /\ sqlite_sequence = SequenceOfTables
    /\ now = 0
    /\ req = EmptyBag
    /\ resp = NoResp
    /\ issued = {}
    /\ presented = Unchecked
    /\ process = "running"

Students == {u \in SeedUsers : u.role = "student"}
FirstNewBatch == Len(SampleCapacity) + 1
NewBatchIds == FirstNewBatch..(FirstNewBatch + 1)
InFlight == BagToSet(req)

\* No request is in flight.
Quiet == req = EmptyBag

\* The requests of a kind in flight
InFlightOf(kind) == BagCardinality([q \in {x \in InFlight : x.kind = kind} |-> req[q]])

\* Both students enroll in the first new batch, alice also in the one after it.
EnrollTargets == {<<c, b>> \in Students \X NewBatchIds : b = FirstNewBatch \/ c.id = 2}

DoEnrollStart == NoTokenCheck /\ \E t \in EnrollTargets : EnrollStart(t[1], t[2])
DoEnrollGetBatch == NoTokenCheck /\ \E q \in InFlight : EnrollGetBatch(q)
DoEnrollGetCount == NoTokenCheck /\ \E q \in InFlight : EnrollGetCount(q)
DoEnrollInsert == NoTokenCheck /\ \E q \in InFlight : EnrollInsert(q)
DoCreateBatch ==
    /\ NoTokenCheck
    /\ MaxId(batches) + InFlightOf("createBatch") < Len(SampleCapacity) + MaxNewBatches
    /\ \E c \in {u \in SeedUsers : u.id \in {2, 4}}, m \in {Num(1), Num(2), Str} :
         CreateBatchStart(c, TRUE, "active", m)
DoCreateBatchInsert == NoTokenCheck /\ \E q \in InFlight : CreateBatchInsert(q)

Next ==
    \/ DoCreateBatch
    \/ DoCreateBatchInsert
    \/ DoEnrollStart
    \/ DoEnrollGetBatch
    \/ DoEnrollGetCount
    \/ DoEnrollInsert

Spec == Init /\ [][Next]_vars

----------------------------------------------------------------------------
(* The report workflow: a teacher has created batch 9, student 3 has        *)
(* enrolled in it and submitted a report for day 1                         *)

ReportBatch ==
    [id |-> FirstNewBatch, instructor_id |-> 4, status |-> "active", max_participants |-> Num(2)]

FirstReport ==
    [id |-> 1, user_id |-> 3, batch_id |-> FirstNewBatch, report_date |-> 1,
     tasks_completed |-> "t1", challenges |-> "c1", hours_worked |-> Num(2),
     notes |-> "n1", created_at |-> 0, updated_at |-> 0]

InitReport ==
    /\ users = SeedUsers
    /\ batches = sampleBatches \cup {ReportBatch}
    /\ enrollments = {[id |-> 1, user_id |-> 3, batch_id |-> FirstNewBatch]}
    /\ reports = {FirstReport}
    /\ sqlite_sequence = SequenceOfTables
    /\ now = 0
    /\ req = EmptyBag
    /\ resp = NoResp
    /\ issued = {}
    /\ presented = Unchecked
    /\ process = "running"

Content(tasks, challenges, hours, notes) ==
    [NoBody EXCEPT !.tasks_completed = tasks, !.challenges = challenges,
                   !.hours_worked = hours, !.notes = notes]

ReportContents ==
    { Content("t1", "c1", Num(2), "n1"),
      Content("t2", "", Num(-1), ""),
      Content("t1", "", Num(0), ""),
      Content("t1", "", Undef, ""),
      Content("", "c1", Num(2), "") }

Body(content, b, d) == [content EXCEPT !.batch_id = b, !.report_date = d]

\* The submissions of the model: student 2 sends every content for day 1 of
\* batch 9, the first content for no batch and for no day, and a content for
\* day 1 of batch 9 whose body names student 3, who has a report for that day.
Submissions ==
    { <<2, Body(k, FirstNewBatch, 1)>> : k \in ReportContents }
      \cup { <<2, Body(Content("t1", "c1", Num(2), "n1"), 0, 1)>>,
             <<2, Body(Content("t1", "c1", Num(2), "n1"), FirstNewBatch, 0)>>,
             <<2, [Body(Content("t3", "c1", Num(2), "n1"), FirstNewBatch, 1)
                     EXCEPT !.user_id = 3]>> }

UserById(u) == CHOOSE x \in users : x.id = u

DoReportEnrollStart == NoTokenCheck /\ EnrollStart(UserById(2), FirstNewBatch)
DoReportStart ==
    /\ NoTokenCheck
    /\ sqlite_sequence.daily_reports + InFlightOf("report") < MaxSequence
    /\ \E s \in Submissions : ReportStart(UserById(s[1]), s[2])
DoReportGetEnrollment == NoTokenCheck /\ \E q \in InFlight : ReportGetEnrollment(q)
DoReportUpsert == NoTokenCheck /\ \E q \in InFlight : ReportUpsert(q)

NextReport ==
    \/ DoReportEnrollStart
    \/ DoEnrollGetBatch
    \/ DoEnrollGetCount
    \/ DoEnrollInsert
    \/ DoReportStart
    \/ DoReportGetEnrollment
    \/ DoReportUpsert
    \/ Tick

SpecReport == InitReport /\ [][NextReport]_vars

----------------------------------------------------------------------------
(* Queries over a ledger: students 2 and 3 are enrolled in batch 9, student 3 *)
(* also in sample batch 1, and some of four reports have been submitted      *)

QueryEnrollments ==
    { [id |-> 1, user_id |-> 2, batch_id |-> FirstNewBatch],
      [id |-> 2, user_id |-> 3, batch_id |-> FirstNewBatch],
      [id |-> 3, user_id |-> 3, batch_id |-> 1] }

\* The submissions in the order they were made: <<user, batch, day, time>>
QuerySubmissions ==
    << <<2, FirstNewBatch, 1, 0>>, <<3, 1, 2, 0>>, <<3, FirstNewBatch, 1, 1>>,
       <<2, FirstNewBatch, 2, 1>> >>

\* The reports table after the submissions picked by ks, ids in submission order.
LedgerOf(ks) ==
    { [id |-> Cardinality({j \in ks : j <= k}), user_id |-> QuerySubmissions[k][1],
       batch_id |-> QuerySubmissions[k][2], report_date |-> QuerySubmissions[k][3],
       tasks_completed |-> "t1", challenges |-> "c1", hours_worked |-> Num(2),
       notes |-> "n1", created_at |-> QuerySubmissions[k][4],
       updated_at |-> QuerySubmissions[k][4]] : k \in ks }

InitQuery ==
    /\ users = SeedUsers
    /\ batches = sampleBatches \cup {ReportBatch}
    /\ enrollments = QueryEnrollments
    /\ reports \in {LedgerOf(ks) : ks \in SUBSET (1..Len(QuerySubmissions))}
    /\ sqlite_sequence = SequenceOfTables
    /\ now = 1
    /\ req = EmptyBag
    /\ resp = NoResp
    /\ issued = {}
    /\ presented = Unchecked
    /\ process = "running"

Queries ==
    [batch_id : {0, FirstNewBatch}, user_id : {0, 2, 3}, start_date : {0, 2},
     end_date : {0, 1}, limit : {Undef, Num(1), Num(-1), Str}]

DoGetReports == NoTokenCheck /\ \E c \in users, f \in Queries : GetReports(c, f)

NextQuery == DoGetReports

SpecQuery == InitQuery /\ [][NextQuery]_vars

----------------------------------------------------------------------------
(* Registration and login, from the state the server creates at its first   *)
(* start: the admin is the only user                                        *)

InitAuth ==
    /\ users = {AdminUser}
    /\ batches = sampleBatches
    /\ enrollments = {}
    /\ reports = {}
    /\ sqlite_sequence = SequenceOfTables
    /\ now = 0
    /\ req = EmptyBag
    /\ resp = NoResp
    /\ issued = {}
    /\ presented = Unchecked
    /\ process = "running"

Cred(username, email, password, full_name, role) ==
    [username |-> username, email |-> email, password |-> password,
     typeofPassword |-> "string", full_name |-> full_name, role |-> role]

\* A password as long as bcrypt reads.
LongPassword == Bytes(BcryptMaxBytes, "a")

\* The registrations of the model: two for the username dave, one with the
\* email of the first, one with the username and one with the email of the
\* admin, one for the role admin, one without full_name, one with the
\* username of the admin for the role admin, one with the email of the
\* admin without full_name, and one with the email of the admin whose
\* password is the JSON number 12.
Registrations ==
    { Cred("dave", "dave@x", LongPassword, "Dave", "student"),
      Cred("dave", "dave2@x", LongPassword, "Dave", "teacher"),
      Cred("erin", "dave@x", <<"p", "e">>, "Erin", "student"),
      Cred("admin", "root@x", <<"p", "r">>, "Root", "student"),
      Cred("frank", "admin@training.com", <<"p", "f">>, "Frank", "teacher"),
      Cred("mallory", "m@x", <<"p", "m">>, "Mallory", "admin"),
      Cred("gina", "g@x", <<"p", "g">>, "", "student"),
      Cred("admin", "root2@x", <<"p", "r">>, "Root", "admin"),
      Cred("heidi", "admin@training.com", <<"p", "h">>, "", "student"),
      [Cred("ivan", "admin@training.com", <<"1", "2">>, "Ivan", "teacher")
          EXCEPT !.typeofPassword = "number"] }

\* The logins of the model: dave with the registered password, with one more
\* byte after it, with another password, with the JSON number 12 as password
\* and with none, and a username nobody registers, with a text and with the
\* number.
Logins ==
    { Cred("dave", "", LongPassword, "", ""),
      Cred("dave", "", LongPassword \o <<"x">>, "", ""),
      Cred("dave", "", <<"p", "e">>, "", ""),
      Cred("dave", "", <<>>, "", ""),
      [Cred("dave", "", <<"1", "2">>, "", "") EXCEPT !.typeofPassword = "number"],
      Cred("nobody", "", <<"p", "e">>, "", ""),
      [Cred("nobody", "", <<"1", "2">>, "", "") EXCEPT !.typeofPassword = "number"] }

DoRegisterStart == \E cred \in Registrations : RegisterStart(cred)
DoRegisterInsert == \E q \in InFlight : RegisterInsert(q)
DoLoginStart == \E cred \in Logins : LoginStart(cred)
DoLoginGetUser == \E q \in InFlight : LoginGetUser(q)
DoLoginCompare == \E q \in InFlight : LoginCompare(q)

NextAuth ==
    \/ DoRegisterStart
    \/ DoRegisterInsert
    \/ DoLoginStart
    \/ DoLoginGetUser
    \/ DoLoginCompare

SpecAuth == InitAuth /\ [][NextAuth]_vars

----------------------------------------------------------------------------
(* Tokens: the users log in, time passes, and requests arrive at the        *)
(* endpoints behind authenticateToken with a token or without one           *)

InitToken ==
    /\ users = SeedUsers
    /\ batches = sampleBatches \cup {ReportBatch}
    /\ enrollments = QueryEnrollments
    /\ reports = LedgerOf(1..Len(QuerySubmissions))
    /\ sqlite_sequence = SequenceOfTables
    /\ now = 0
    /\ req = EmptyBag
    /\ resp = NoResp
    /\ issued = {}
    /\ presented = Unchecked
    /\ process = "running"

\* The logins of the admin, of student alice and of teacher carol.
TokenLogins ==
    { Cred("admin", "", AdminPassword, "", ""),
      Cred("alice", "", <<"p", "a">>, "", ""),
      Cred("carol", "", <<"p", "c">>, "", "") }

\* A token whose payload was changed to the role admin after it was signed.
Tampered(token) == [token EXCEPT !.role = "admin", !.sig = "tampered"]

\* What a client can send: no token, a token it was issued, a tampered one.
Presentable == {NoToken} \cup issued \cup {Tampered(t) : t \in issued}

\* Half a token lifetime passes.
TickHours ==
    /\ now + TokenLifetime \div 2 <= MaxHours
    /\ now' = now + TokenLifetime \div 2
    /\ resp' = NoResp
    /\ NoTokenCheck
    /\ UNCHANGED <<users, batches, enrollments, reports, req, sqlite_sequence, process>>

\* The logins in flight
LoginsInFlight == BagCardinality([q \in {x \in InFlight : x.kind = "login"} |-> req[q]])

DoTokenLoginStart ==
    /\ Cardinality(issued) + LoginsInFlight < MaxTokens
    /\ \E cred \in TokenLogins : LoginStart(cred)

\* One request with a token is in flight at a time.
NoneWithToken == InFlightOf("createBatch") + InFlightOf("exportAll") = 0

DoCreateBatchWithToken ==
    \E t \in Presentable :
        /\ NoneWithToken
        /\ \/ MaxId(batches) + InFlightOf("createBatch") < FirstNewBatch + MaxNewBatches
           \/ TokenMissing(t) \/ ~JwtVerify(t)
        /\ authenticateToken(t, "createBatch", CreateBatchStart(Decoded(t), TRUE, "active", Num(2)))

DoExportAllWithToken ==
    \E t \in Presentable :
        NoneWithToken /\ authenticateToken(t, "exportAll", ExportAllStart(Decoded(t)))

\* A query of a statistics or export request in flight is answered.
DoFanInAnswered ==
    NoTokenCheck /\ \E q \in InFlight, key \in AdminStatsKeys \cup ExportAllKeys :
                       FanInCallback(q, key, FALSE)

NextToken ==
    \/ DoTokenLoginStart
    \/ DoLoginGetUser
    \/ DoLoginCompare
    \/ TickHours
    \/ DoCreateBatchWithToken
    \/ DoCreateBatchInsert
    \/ DoExportAllWithToken
    \/ DoFanInAnswered

SpecToken == InitToken /\ [][NextToken]_vars

----------------------------------------------------------------------------
(* The role gates: requests that have passed authenticateToken arrive at    *)
(* the read endpoints and at POST /api/batches                              *)

InitRoles ==
    /\ users = SeedUsers
    /\ batches = sampleBatches \cup {ReportBatch}
    /\ enrollments = QueryEnrollments
    /\ reports \in {{}, LedgerOf(1..Len(QuerySubmissions))}
    /\ sqlite_sequence = SequenceOfTables
    /\ now = 1
    /\ req = EmptyBag
    /\ resp = NoResp
    /\ issued = {}
    /\ presented = Unchecked
    /\ process = "running"

\* The bodies of POST /api/batches of the model, as <<the fields name,
\* duration and start_date are present, status, max_participants>>.
CreateBatchBodies ==
    { <<TRUE, "active", Undef>>, <<TRUE, "active", Num(0)>>, <<TRUE, "active", Num(2)>>,
      <<TRUE, "active", Str>>, <<TRUE, "open", Num(2)>>, <<TRUE, "", Num(2)>>,
      <<FALSE, "active", Num(2)>> }

\* /api/admin/stats runs alone; of the other routes with several queries one
\* request is in flight at a time.
NoAdminStats == InFlightOf("adminStats") = 0

DoExportUsers == NoTokenCheck /\ NoAdminStats /\ \E c \in users : ExportUsers(c)
DoExportReports == NoTokenCheck /\ NoAdminStats /\ \E c \in users : ExportReports(c)
DoExportAll ==
    NoTokenCheck /\ NoAdminStats /\ InFlightOf("exportAll") = 0 /\ \E c \in users : ExportAllStart(c)
DoAdminStats == NoTokenCheck /\ Quiet /\ \E c \in users : AdminStatsStart(c)
DoClassInsights ==
    NoTokenCheck /\ NoAdminStats /\ \E c \in users, b \in {1, FirstNewBatch} : ClassInsights(c, b)
DoCreateBatchByAnyone ==
    /\ NoTokenCheck /\ NoAdminStats
    /\ MaxId(batches) + InFlightOf("createBatch") < FirstNewBatch + MaxNewBatches
    /\ \E c \in users, body \in CreateBatchBodies : CreateBatchStart(c, body[1], body[2], body[3])

NextRoles ==
    \/ DoExportUsers
    \/ DoExportReports
    \/ DoExportAll
    \/ DoAdminStats
    \/ DoFanInAnswered
    \/ DoClassInsights
    \/ DoCreateBatchByAnyone
    \/ DoCreateBatchInsert

SpecRoles == InitRoles /\ [][NextRoles]_vars

----------------------------------------------------------------------------
(* Properties of the enrollment workflow *)

Answered(kind) == resp.q.kind = kind
BatchOf(b) == CHOOSE x \in batches : x.id = b
Exists(b) == \E x \in batches : x.id = b
RowsOfBatch(b) == {e \in enrollments : e.batch_id = b}

\* C1: every batch has at most max_participants enrollment rows, whatever the
\* interleaving of the Enroll requests.
CapacityRespected ==
    \A x \in batches :
        x.max_participants.t = "num" => Cardinality(RowsOfBatch(x.id)) <= x.max_participants.n

\* C2: at most one enrollment row per (user, batch) pair.
UniqueEnrollment ==
    \A e1, e2 \in enrollments :
        (e1.user_id = e2.user_id /\ e1.batch_id = e2.batch_id) => e1 = e2

\* Two Enroll requests of one user for one batch both passed the capacity
\* check before either inserted; the second insert was refused.
UniqueEnrollmentWitness ==
    /\ Answered("enroll") /\ resp.error = "Already enrolled"
    /\ ~resp.q.enrolled0
    /\ resp.q.count = 0
    /\ Cardinality(RowsOfBatch(resp.q.batchId)) = 1

\* C3: an Enroll that ran alone, of a user not yet enrolled in an existing
\* batch, is refused with 'Batch is full' and adds nothing when the batch held
\* max_participants rows, and succeeds and fills the batch when it held
\* max_participants - 1 rows.
EnrollAtCapacity ==
    (Answered("enroll") /\ resp.q.solo /\ ~resp.q.enrolled0 /\ Exists(resp.q.batchId)
       /\ BatchOf(resp.q.batchId).max_participants.t = "num") =>
        LET b == resp.q.batchId
            max == BatchOf(b).max_participants.n
            count == Cardinality(RowsOfBatch(b)) IN
          /\ resp.q.count0 = max =>
                resp.status = 400 /\ resp.error = "Batch is full" /\ count = resp.q.count0
          /\ resp.q.count0 = max - 1 =>
                resp.status = 200 /\ count = max

EnrollAtCapacityWitness ==
    /\ Answered("enroll") /\ resp.q.solo /\ ~resp.q.enrolled0
    /\ Exists(resp.q.batchId)
    /\ BatchOf(resp.q.batchId).max_participants.t = "num"
    /\ resp.q.count0 = BatchOf(resp.q.batchId).max_participants.n
    /\ resp.error = "Batch is full"

EnrollToCapacityWitness ==
    /\ Answered("enroll") /\ resp.q.solo /\ ~resp.q.enrolled0
    /\ Exists(resp.q.batchId)
    /\ BatchOf(resp.q.batchId).max_participants.t = "num"
    /\ resp.q.count0 = BatchOf(resp.q.batchId).max_participants.n - 1
    /\ resp.status = 200

\* Both students have enrolled in a batch whose max_participants is a text:
\* no count is at least a text, and the batch is never full.
TextCapacityWitness ==
    /\ Answered("enroll") /\ resp.status = 200
    /\ BatchOf(resp.q.batchId).max_participants = Str
    /\ Cardinality(RowsOfBatch(resp.q.batchId)) = 2

\* C4 as stated: an Enroll of a user who already has a row for the batch is
\* answered 'Already enrolled'.
ReEnrollAlreadyEnrolled ==
    (Answered("enroll") /\ resp.q.enrolled0) => resp.error = "Already enrolled"

\* C4 amended: an Enroll of a user who already has a row for the batch adds no
\* row and is answered 400, 'Batch is full' when the count read by its
\* capacity check is at least max_participants and 'Already enrolled' otherwise.
ReEnrollFails ==
    [][(resp'.q.kind = "enroll" /\ resp'.q.enrolled0) =>
          /\ enrollments' = enrollments
          /\ resp'.status = 400
          /\ resp'.error \in {"Batch is full", "Already enrolled"}
          /\ LET max == BatchOf(resp'.q.batchId).max_participants
                 checked == IF resp'.q.pc = "insert" THEN resp'.q.count
                            ELSE Cardinality(RowsOfBatch(resp'.q.batchId)) IN
               (resp'.error = "Batch is full") <=> (max.t = "num" /\ checked >= max.n)]_vars

ReEnrollFailsWitness ==
    /\ Answered("enroll") /\ resp.q.enrolled0 /\ resp.error = "Already enrolled"
    /\ BatchOf(resp.q.batchId).max_participants.t = "num"
    /\ resp.q.count < BatchOf(resp.q.batchId).max_participants.n

ReEnrollFullWitness ==
    /\ Answered("enroll") /\ resp.q.enrolled0 /\ resp.error = "Batch is full"

\* C5: an Enroll for a batch id that is not in the batches table is answered
\* 404 'Batch not found', and every enrollment row references a batch that
\* exists.
EnrollUnknownBatch ==
    /\ (Answered("enroll") /\ ~Exists(resp.q.batchId)) =>
          resp.status = 404 /\ resp.error = "Batch not found"
    /\ \A e \in enrollments : Exists(e.batch_id)

EnrollUnknownBatchWitness ==
    /\ Answered("enroll") /\ resp.status = 404
    /\ ~Exists(resp.q.batchId)
    /\ enrollments # {}

----------------------------------------------------------------------------
(* Properties of the report workflow *)

SameTriple(x, y) ==
    x.user_id = y.user_id /\ x.batch_id = y.batch_id /\ x.report_date = y.report_date

\* The rows of table t for the triple the answered request was about.
RowsOfAnswer(t, a) ==
    {x \in t : x.user_id = a.q.user /\ x.batch_id = a.q.body.batch_id
               /\ x.report_date = a.q.body.report_date}

HasEnrollment(u, b) == \E e \in enrollments : e.user_id = u /\ e.batch_id = b

\* C6: at most one report row per (user, batch, report date) triple.
UniqueReport ==
    \A x, y \in reports : SameTriple(x, y) => x = y

\* Two submissions for one triple were in flight together: the answered one
\* started before the row existed and found it there when it wrote.
UniqueReportWitness ==
    /\ Answered("report") /\ resp.status = 200
    /\ ~resp.q.row0
    /\ \E x \in RowsOfAnswer(reports, resp) : x.created_at < x.updated_at

\* C7: a submission for a triple that already has a row leaves the number of
\* rows unchanged; the row keeps its id and created_at, takes the tasks,
\* challenges, hours and notes of the submission and the current time as
\* updated_at; every other row is unchanged.
ResubmitOverwrites ==
    [][(resp'.q.kind = "report" /\ resp'.status = 200 /\ RowsOfAnswer(reports, resp') # {}) =>
          \E old \in RowsOfAnswer(reports, resp'), new \in RowsOfAnswer(reports', resp') :
             /\ Cardinality(reports') = Cardinality(reports)
             /\ reports' \ {new} = reports \ {old}
             /\ new.id = old.id
             /\ new.created_at = old.created_at
             /\ new.tasks_completed = resp'.q.body.tasks_completed
             /\ new.challenges = resp'.q.body.challenges
             /\ new.hours_worked = resp'.q.body.hours_worked
             /\ new.notes = resp'.q.body.notes
             /\ new.updated_at = now
             /\ new.updated_at >= old.updated_at]_vars

\* A second submission with other values, later than the first, while
\* another triple has a row.
ResubmitOverwritesWitness ==
    /\ Answered("report") /\ resp.status = 200 /\ resp.q.row0
    /\ Cardinality(reports) = 2
    /\ \E x \in RowsOfAnswer(reports, resp) :
          /\ x.created_at < x.updated_at
          /\ x.tasks_completed = "t2"
          /\ x.id = 2

\* The statement of C8 as it was made: every submission for a (user, batch)
\* without an enrollment row is answered 403 'Not enrolled in this batch' and
\* leaves the reports unchanged; every stored report has an enrollment row
\* for its (user, batch).
ReportAlwaysNotEnrolled ==
    /\ [](\A x \in reports : HasEnrollment(x.user_id, x.batch_id))
    /\ [][(/\ resp'.q.kind = "report"
           /\ ~HasEnrollment(resp'.q.user, resp'.q.body.batch_id)) =>
             /\ resp'.status = 403
             /\ resp'.error = "Not enrolled in this batch"
             /\ reports' = reports]_vars

\* C8: a submission for a (user, batch) without an enrollment row fails and
\* leaves the reports unchanged: with 400 'Required fields missing' when
\* batch_id, report_date, tasks_completed or hours_worked is absent, empty or
\* 0, and with 403 'Not enrolled in this batch' otherwise; every stored report
\* has an enrollment row for its (user, batch).
ReportNeedsEnrollment ==
    /\ [](\A x \in reports : HasEnrollment(x.user_id, x.batch_id))
    /\ [][(/\ resp'.q.kind = "report"
           /\ ~HasEnrollment(resp'.q.user, resp'.q.body.batch_id)) =>
             /\ reports' = reports
             /\ IF \/ resp'.q.body.batch_id = 0 \/ resp'.q.body.report_date = 0
                   \/ resp'.q.body.tasks_completed = ""
                   \/ resp'.q.body.hours_worked \in {Undef, Num(0)}
                THEN resp'.status = 400 /\ resp'.error = "Required fields missing"
                ELSE resp'.status = 403 /\ resp'.error = "Not enrolled in this batch"]_vars

ReportNeedsEnrollmentWitness ==
    /\ Answered("report") /\ resp.status = 403
    /\ ~HasEnrollment(resp.q.user, resp.q.body.batch_id)
    /\ reports # {}

\* Student 2, not enrolled in batch 9, has submitted a report for it with 0
\* hours and was answered 400.
ReportFieldsBeforeEnrollmentWitness ==
    /\ Answered("report") /\ resp.status = 400 /\ resp.error = "Required fields missing"
    /\ resp.q.body.batch_id = FirstNewBatch /\ resp.q.body.report_date # 0
    /\ resp.q.body.tasks_completed # "" /\ resp.q.body.hours_worked = Num(0)
    /\ ~HasEnrollment(resp.q.user, resp.q.body.batch_id)

\* C9: a submission by an enrolled user is answered 400 exactly when tasks or
\* hours is absent or hours is not a non-negative number, and every stored
\* report has hours_worked >= 0.
NonNegativeNumber(v) == v.t = "num" /\ v.n >= 0

HoursValidated ==
    /\ \A x \in reports : NonNegativeNumber(x.hours_worked)
    /\ (/\ Answered("report") /\ resp.q.enrolled0
        /\ resp.q.body.batch_id # 0 /\ resp.q.body.report_date # 0) =>
          ((resp.status = 400) <=>
             (\/ resp.q.body.tasks_completed = ""
              \/ resp.q.body.hours_worked.t = "undef"
              \/ ~NonNegativeNumber(resp.q.body.hours_worked)))

\* What the handler does validate: a submission is answered 400 exactly when
\* one of batch_id, report_date, tasks_completed, hours_worked is falsy.
HoursTruthy ==
    Answered("report") =>
        ((resp.status = 400) <=>
           (\/ resp.q.body.batch_id = 0 \/ resp.q.body.report_date = 0
            \/ resp.q.body.tasks_completed = ""
            \/ resp.q.body.hours_worked.t = "undef"
            \/ resp.q.body.hours_worked = Num(0)))

----------------------------------------------------------------------------
(* Properties of the report queries *)

\* C10: every row returned to a student caller is a report of the caller,
\* whatever the filters.
StudentSeesOwnReports ==
    (Answered("getReports") /\ resp.q.role = "student") =>
        \A i \in 1..Len(resp.rows) : resp.rows[i].report.user_id = resp.q.user

\* A student asked for the reports of another user who has some, and got rows.
StudentSeesOwnReportsWitness ==
    /\ Answered("getReports") /\ resp.q.role = "student"
    /\ resp.q.query.user_id \notin {0, resp.q.user}
    /\ \E x \in reports : x.user_id = resp.q.query.user_id
    /\ Len(resp.rows) > 0

\* The reports that pass the batch and date filters of the answered query.
PassingFilters(a) ==
    {x \in reports :
        /\ a.q.query.batch_id # 0 => x.batch_id = a.q.query.batch_id
        /\ a.q.query.start_date # 0 => x.report_date >= a.q.query.start_date
        /\ a.q.query.end_date # 0 => x.report_date <= a.q.query.end_date}

ReturnedReports(a) == {a.rows[i].report : i \in 1..Len(a.rows)}

\* C11: a teacher or admin who filters by user_id gets only reports of that
\* user, and without a user_id filter (and without a limit that cuts) gets
\* the reports of every user that pass the other filters.
StaffFiltersByUser ==
    (Answered("getReports") /\ resp.q.role \in {"teacher", "admin"} /\ resp.status = 200) =>
        /\ resp.q.query.user_id # 0 =>
              \A x \in ReturnedReports(resp) : x.user_id = resp.q.query.user_id
        /\ (resp.q.query.user_id = 0 /\ resp.q.query.limit.t = "undef") =>
              ReturnedReports(resp) = PassingFilters(resp)

\* A teacher asked for the reports of student 2 and got some, while student 3
\* has reports too.
StaffFiltersByUserWitness ==
    /\ Answered("getReports") /\ resp.q.role = "teacher"
    /\ resp.q.query.user_id = 2
    /\ Len(resp.rows) > 0
    /\ \E x \in reports : x.user_id = 3

\* A teacher without a user_id filter got the reports of two other users.
StaffSeesAllWitness ==
    /\ Answered("getReports") /\ resp.q.role = "teacher"
    /\ resp.q.query.user_id = 0
    /\ {x.user_id : x \in ReturnedReports(resp)} = {2, 3}

\* C12: the rows come by report date descending, then creation time
\* descending, and are the first min(limit, matches) rows of the matching
\* reports, limit being 100 when none is supplied.
OrderedAndLimited ==
    (Answered("getReports") /\ resp.q.query.limit.t # "str") =>
        LET limit == IF resp.q.query.limit.t = "undef" THEN 100 ELSE resp.q.query.limit.n
            matches == {x \in PassingFilters(resp) :
                          /\ resp.q.role = "student" => x.user_id = resp.q.user
                          /\ (resp.q.role # "student" /\ resp.q.query.user_id # 0) =>
                                x.user_id = resp.q.query.user_id} IN
          /\ resp.status = 200
          /\ Len(resp.rows) = Min(limit, Cardinality(matches))
          /\ ReturnedReports(resp) \subseteq matches
          /\ \A i, j \in 1..Len(resp.rows) :
                i < j =>
                  \/ resp.rows[i].report.report_date > resp.rows[j].report.report_date
                  \/ /\ resp.rows[i].report.report_date = resp.rows[j].report.report_date
                     /\ resp.rows[i].report.created_at >= resp.rows[j].report.created_at
          /\ \A x \in matches \ ReturnedReports(resp), i \in 1..Len(resp.rows) :
                \/ resp.rows[i].report.report_date > x.report_date
                \/ /\ resp.rows[i].report.report_date = x.report_date
                   /\ resp.rows[i].report.created_at >= x.created_at

\* What holds of the order and of a limit that is not negative.
OrderedAndLimitedFromZero ==
    (resp.q.query.limit.t = "num" /\ resp.q.query.limit.n < 0) \/ OrderedAndLimited

----------------------------------------------------------------------------
(* Properties of registration and login *)

\* C13: a registration for a role other than student and teacher fails and
\* creates no user, and the only user with the role admin is the seeded one.
RegisterOnlyStudentOrTeacher ==
    /\ [](\A u \in users : u.role = "admin" => u = AdminUser)
    /\ [][(resp'.q.kind = "register" /\ resp'.q.cred.role \notin {"student", "teacher"}) =>
             (resp'.status = 400 /\ users' = users)]_vars

\* The registration of mallory for the role admin was refused.
RegisterOnlyStudentOrTeacherWitness ==
    /\ Answered("register")
    /\ resp.q.cred.role = "admin" /\ resp.q.cred.full_name # ""
    /\ resp.status = 400 /\ resp.error = "Invalid role"

\* The step answered a registration whose username or email is that of a user.
IdentityOfAUser(a) ==
    /\ a.q.kind = "register"
    /\ \E u \in users : u.username = a.q.cred.username \/ u.email = a.q.cred.email

\* The statement of C14 as it was made: usernames are pairwise distinct and
\* emails are pairwise distinct, and every registration whose username or
\* email is that of a user fails with 400 'Username or email already exists'
\* and leaves the users table as it was.
DuplicateIdentityAlways ==
    /\ [](\A u, v \in users : u # v => (u.username # v.username /\ u.email # v.email))
    /\ [][IdentityOfAUser(resp') =>
               /\ resp'.status = 400
               /\ resp'.error = "Username or email already exists"
               /\ users' = users]_vars

\* C14: usernames are pairwise distinct and emails are pairwise distinct, and
\* a registration whose username or email is that of a user fails and leaves
\* the users table as it was: with 400 'All fields are required' when a
\* field is absent or empty, with 400 'Invalid role' when the role is neither
\* student nor teacher, with 500 'Server error' when the password is no
\* text, and with 400 'Username or email already exists' otherwise.
DuplicateIdentityRejected ==
    /\ [](\A u, v \in users : u # v => (u.username # v.username /\ u.email # v.email))
    /\ [][IdentityOfAUser(resp') =>
               /\ users' = users
               /\ <<resp'.status, resp'.error>> =
                     IF \/ resp'.q.cred.username = "" \/ resp'.q.cred.email = ""
                        \/ resp'.q.cred.password = <<>> \/ resp'.q.cred.full_name = ""
                        \/ resp'.q.cred.role = ""
                        \/ (resp'.q.cred.typeofPassword = "number"
                              /\ resp'.q.cred.password = <<"0">>)
                     THEN <<400, "All fields are required">>
                     ELSE IF resp'.q.cred.role \notin {"student", "teacher"}
                     THEN <<400, "Invalid role">>
                     ELSE IF resp'.q.cred.typeofPassword # "string"
                     THEN <<500, "Server error">>
                     ELSE <<400, "Username or email already exists">>]_vars

\* Two registrations for dave were in flight together: one has created the
\* user and the other has just been refused.
DuplicateIdentityRejectedWitness ==
    /\ Answered("register")
    /\ resp.q.cred.username = "dave"
    /\ resp.status = 400 /\ resp.error = "Username or email already exists"
    /\ \E u \in users : u.username = "dave" /\ u.email # resp.q.cred.email

\* A registration with the username of the seeded admin, and one with its
\* email, was refused.
DuplicateOfAdminWitness ==
    /\ Answered("register")
    /\ resp.q.cred.username = "admin" \/ resp.q.cred.email = "admin@training.com"
    /\ resp.status = 400 /\ resp.error = "Username or email already exists"

\* A registration with the username of the admin for the role admin was
\* answered 'Invalid role', and one with the email of the admin and no
\* full_name 'All fields are required'.
DuplicateInvalidRoleWitness ==
    /\ Answered("register")
    /\ resp.q.cred.username = "admin" /\ resp.q.cred.role = "admin"
    /\ resp.status = 400 /\ resp.error = "Invalid role"

DuplicateFieldMissingWitness ==
    /\ Answered("register")
    /\ resp.q.cred.email = "admin@training.com" /\ resp.q.cred.full_name = ""
    /\ resp.status = 400 /\ resp.error = "All fields are required"

\* A registration with the email of the admin and the number 12 as password
\* was answered 500 'Server error'.
DuplicateNumberPasswordWitness ==
    /\ Answered("register")
    /\ resp.q.cred.email = "admin@training.com" /\ resp.q.cred.typeofPassword = "number"
    /\ resp.status = 500 /\ resp.error = "Server error"

\* A registration with the email of a user and another username was refused.
DuplicateEmailWitness ==
    /\ Answered("register")
    /\ resp.status = 400 /\ resp.error = "Username or email already exists"
    /\ \E u \in users : u.email = resp.q.cred.email /\ u.username # resp.q.cred.username

\* The password a username is registered with: the registrations of one
\* username all carry the same password.
RegisteredPassword(username) == (CHOOSE c \in Registrations : c.username = username).password

\* The step answered a login for a user that a registration had created
\* before the login started.
LoginOfRegistered(a) ==
    /\ a.q.kind = "login" /\ a.q.known0
    /\ a.q.cred.password # <<>>
    /\ \E c \in Registrations : c.username = a.q.cred.username

\* C15: for a user created by a registration, a later login with the
\* registered password succeeds and issues a token, and a login with any
\* other password fails with 401 'Invalid credentials' and issues no token.
RegisterThenAuthenticate ==
    LoginOfRegistered(resp) =>
        IF resp.q.cred.password = RegisteredPassword(resp.q.cred.username)
        THEN resp.status = 200 /\ resp.token # NoToken /\ resp.token \in issued
        ELSE resp.status = 401 /\ resp.error = "Invalid credentials" /\ resp.token = NoToken

\* What holds: the same for the other texts that differ from the registered
\* password within its first 72 bytes.
RegisterThenAuthenticateIn72Bytes ==
    (/\ LoginOfRegistered(resp)
     /\ resp.q.cred.typeofPassword = "string"
     /\ \/ resp.q.cred.password = RegisteredPassword(resp.q.cred.username)
        \/ \E i \in 1..BcryptMaxBytes :
              \/ i > Len(resp.q.cred.password)
              \/ i > Len(RegisteredPassword(resp.q.cred.username))
              \/ resp.q.cred.password[i] # RegisteredPassword(resp.q.cred.username)[i])
        => RegisterThenAuthenticate

\* C16: a login for a username that is not in the table and a login with a
\* password that does not match are answered alike: 401 'Invalid
\* credentials', no token, nothing else.
LoginDenialsAlike ==
    (/\ Answered("login")
     /\ resp.q.cred.username # "" /\ resp.q.cred.password # <<>>
     /\ \/ resp.q.pc = "getUser"
        \/ resp.q.pc = "compare" /\ resp.status # 200)
        => (<<resp.status, resp.error, resp.token, resp.rows, resp.data>>
              = <<401, "Invalid credentials", NoToken, <<>>, {}>>)

\* What holds: the same for the logins whose password is a text.
LoginTextDenialsAlike == resp.q.cred.typeofPassword = "string" => LoginDenialsAlike

\* A login for dave with the number 12 as password has had no answer and the
\* process has ended; the same login for the username nobody was refused.
LoginCompareRejectedWitness ==
    /\ Answered("login") /\ resp.q.pc = "compare"
    /\ resp.q.cred.username = "dave" /\ resp.q.cred.typeofPassword = "number"
    /\ resp.status = 0 /\ resp.error = "Error"
    /\ req = EmptyBag /\ process = "ended"

LoginNumberUnknownUserWitness ==
    /\ Answered("login") /\ resp.q.pc = "getUser"
    /\ resp.q.cred.username = "nobody" /\ resp.q.cred.typeofPassword = "number"
    /\ resp.status = 401 /\ process = "running"

\* A login for the username nobody has been refused.
LoginDenialsAlikeWitness ==
    /\ Answered("login") /\ resp.q.pc = "getUser"
    /\ resp.q.cred.username = "nobody" /\ resp.status = 401

\* A login for dave with a password that is not dave's has been refused.
LoginWrongPasswordWitness ==
    /\ Answered("login") /\ resp.q.pc = "compare"
    /\ resp.q.cred.username = "dave" /\ resp.q.cred.password = <<"p", "e">>
    /\ resp.status = 401

----------------------------------------------------------------------------
(* Properties of the token check *)

\* The step was a token check that let no handler run: the four tables are
\* as they were and no request has started.
HandlerDidNotRun ==
    /\ users' = users /\ batches' = batches
    /\ enrollments' = enrollments /\ reports' = reports
    /\ BagCardinality(req') = BagCardinality(req)
    /\ resp'.data = {} /\ resp'.rows = <<>> /\ resp'.token = NoToken

\* C17: a request to an endpoint behind authenticateToken without a token is
\* answered 401 'Access token required', one with a token that is not validly
\* signed or has expired 403 'Invalid or expired token', and in both cases
\* the handler does not run and the four tables are unchanged.
TokenRequired ==
    /\ [][presented' = NoToken =>
             /\ resp'.status = 401 /\ resp'.error = "Access token required"
             /\ HandlerDidNotRun]_vars
    /\ [][(presented' \notin {NoToken, Unchecked}
             /\ (presented'.sig # "JWT_SECRET" \/ now >= presented'.exp)) =>
                /\ resp'.status = 403 /\ resp'.error = "Invalid or expired token"
                /\ HandlerDidNotRun]_vars

\* A request to POST /api/batches without a token has been refused.
TokenRequiredWitness ==
    /\ presented = NoToken
    /\ Answered("createBatch") /\ resp.status = 401

\* A request with a tampered token, and one with an expired token, has been
\* refused.
TamperedTokenWitness ==
    /\ presented.sig = "tampered" /\ now < presented.exp
    /\ Answered("exportAll") /\ resp.status = 403 /\ resp.error = "Invalid or expired token"

ExpiredTokenWitness ==
    /\ presented \in issued /\ now >= presented.exp
    /\ Answered("createBatch") /\ resp.status = 403 /\ resp.error = "Invalid or expired token"

\* The answers of authenticateToken itself.
RefusedByTokenCheck(a) ==
    \/ a.status = 401 /\ a.error = "Access token required"
    \/ a.status = 403 /\ a.error = "Invalid or expired token"

\* The step has let the request with token t through to its handler: the
\* handler has answered for the user of the token, or its request has gone in
\* flight for that user with no storage call answered yet.
AcceptedFor(t) ==
    IF resp # NoResp
    THEN ~RefusedByTokenCheck(resp) /\ resp.q.user = t.id /\ resp.q.role = t.role
    ELSE \E q \in InFlight :
            /\ q.user = t.id /\ q.role = t.role
            /\ \/ q.kind = "createBatch" /\ q.pc = "insert"
               \/ q.kind = "exportAll" /\ q.completed = 0

\* C18: a token issued by a login carries the id, username and role of the
\* user who logged in and expires 24 hours after its issue; whatever has
\* happened since, a request with it is accepted (its handler runs for that
\* user) at every time before the expiry and refused at every time after it.
TokenLivesOneDay ==
    /\ \A t \in issued :
          /\ \E u \in users : u.id = t.id /\ u.username = t.username /\ u.role = t.role
          /\ t.exp = t.iat + 24
    /\ (Answered("login") /\ resp.status = 200) =>
          /\ resp.token \in issued
          /\ resp.token.username = resp.q.cred.username
          /\ resp.token.iat = now
    /\ (presented \in issued /\ now < presented.iat + 24) => AcceptedFor(presented)
    /\ (presented \in issued /\ now > presented.iat + 24) =>
          /\ resp.status = 403 /\ resp.error = "Invalid or expired token"

\* A token was accepted twelve hours after its issue, after another login and
\* the creation of a batch.
TokenLivesOneDayWitness ==
    /\ presented \in issued /\ now = presented.iat + 12
    /\ AcceptedFor(presented) /\ resp = NoResp
    /\ \E t \in issued : t.iat > presented.iat
    /\ \E b \in batches : b.id > FirstNewBatch

\* A batch was added when every token issued had expired: its request had
\* passed the token check before.
BatchAddedAfterExpiryWitness ==
    /\ Answered("createBatch") /\ resp.status = 201
    /\ issued # {} /\ \A t \in issued : now >= t.exp

\* A token was refused more than 24 hours after its issue.
TokenOutlivedWitness ==
    /\ presented \in issued /\ now > presented.iat + 24
    /\ resp.status = 403

----------------------------------------------------------------------------
(* Properties of the role gates *)

\* C19: POST /api/batches creates a batch only for a teacher or an admin; a
\* student gets 403 and the batches table is unchanged; the batch a request
\* creates has the id of the caller as its instructor.
CreateBatchByStaffOnly ==
    [][resp'.q.kind = "createBatch" =>
         /\ resp'.q.role \notin {"teacher", "admin"} =>
               /\ resp'.status = 403 /\ resp'.error = "Insufficient permissions"
               /\ batches' = batches
         /\ batches' # batches => (resp'.status = 201 /\ resp'.q.role \in {"teacher", "admin"})
         /\ resp'.status = 201 =>
               \E b \in batches' \ batches :
                  /\ batches' = batches \cup {b}
                  /\ b.id = resp'.q.batchId
                  /\ b.instructor_id = resp'.q.user]_vars

\* A student asked for a batch and was refused.
CreateBatchByStaffOnlyWitness ==
    /\ Answered("createBatch") /\ resp.q.role = "student"
    /\ resp.status = 403
    /\ ~ \E b \in batches : b.id > FirstNewBatch

\* Teacher 4 has created batch 10.
CreateBatchByTeacherWitness ==
    /\ Answered("createBatch") /\ resp.q.role = "teacher" /\ resp.status = 201
    /\ \E b \in batches : b.id = FirstNewBatch + 1 /\ b.instructor_id = 4 /\ resp.q.user = 4

ReadEndpoints == {"exportUsers", "exportReports", "exportAll", "adminStats", "classInsights"}

\* C20: /api/admin/export/all answers with data to an admin and with 403 to a
\* teacher and to a student; the exports of users and of reports, the admin
\* statistics and the class insights answer with data to a teacher and to an
\* admin and with 403 to a student.
ReadGates ==
    (resp.q.kind \in ReadEndpoints) =>
        LET allowed == IF Answered("exportAll") THEN {"admin"} ELSE {"teacher", "admin"} IN
          IF resp.q.role \in allowed
          THEN resp.status = 200
          ELSE resp.status = 403 /\ resp.error = "Insufficient permissions" /\ resp.data = {}

\* A teacher asked for the export of all tables and was refused.
ReadGatesWitness ==
    /\ Answered("exportAll") /\ resp.q.role = "teacher" /\ resp.status = 403

\* An admin got the export of all tables; a student was refused the class
\* insights; a teacher got them.
ExportAllByAdminWitness ==
    /\ Answered("exportAll") /\ resp.q.role = "admin" /\ resp.status = 200
    /\ <<"users", 1, 0>> \in resp.data

StudentRefusedInsightsWitness ==
    /\ Answered("classInsights") /\ resp.q.role = "student" /\ resp.status = 403

TeacherGotInsightsWitness ==
    /\ Answered("classInsights") /\ resp.q.role = "teacher" /\ resp.status = 200
    /\ <<"student", 2, 2>> \in resp.data

----------------------------------------------------------------------------
(* The insights over ledgers of many reports *)

\* The ledgers: student 2 has n reports for batch 9, one every stride days
\* from day 1 on, the first k of lo + 1 hours and the others of lo hours;
\* student 3 has m reports for batch 9 of 5 hours; with dup, student 2 has
\* also reported for batch 1 on days 1 and 2.  The ids are those of reports
\* submitted in this order to a new database.
ReportCounts == {0, 1, 2, 4, 5, 9, 10, 14, 15, 16}
HourLevels == {3, 4, 5, 6}

LedgerShapes ==
    {<<n, k, lo, 1, 0, FALSE>> : n \in ReportCounts, k \in {0, 1, 15}, lo \in HourLevels}
      \cup {<<n, 0, 4, stride, 0, dup>> :
              n \in ReportCounts, stride \in {2}, dup \in BOOLEAN}
      \cup {<<n, 0, 4, 1, m, TRUE>> : n \in ReportCounts, m \in {4, 12}}
      \cup {<<2, 0, 4, 15, 0, FALSE>>}

InsightReport(id, u, b, d, h) ==
    [id |-> id, user_id |-> u, batch_id |-> b, report_date |-> d,
     tasks_completed |-> "t1", challenges |-> "c1", hours_worked |-> Num(h),
     notes |-> "n1", created_at |-> 0, updated_at |-> 0]

InsightLedger(s) ==
    {InsightReport(i, 2, FirstNewBatch, 1 + (i - 1) * s[4],
                   IF i <= s[2] THEN s[3] + 1 ELSE s[3]) : i \in 1..s[1]}
      \cup {InsightReport(s[1] + i, 3, FirstNewBatch, i, 5) : i \in 1..s[5]}
      \cup (IF s[6] THEN {InsightReport(s[1] + s[5] + i, 2, 1, i, 4) : i \in 1..2} ELSE {})

\* Student 2 has n reports for batch 9, on each of the first n - 1 days and
\* on the day last: 23 and 21 reports over 40 days, 29 over 200 days.
GapLedger(n, last) ==
    {InsightReport(i, 2, FirstNewBatch, IF i < n THEN i ELSE last, 4) : i \in 1..n}

GapLedgers == {GapLedger(23, 40), GapLedger(21, 40), GapLedger(29, 200)}

InitInsights ==
    /\ users = SeedUsers
    /\ batches = sampleBatches \cup {ReportBatch}
    /\ enrollments = {[id |-> 1, user_id |-> 2, batch_id |-> FirstNewBatch],
                      [id |-> 2, user_id |-> 3, batch_id |-> FirstNewBatch],
                      [id |-> 3, user_id |-> 2, batch_id |-> 1]}
    /\ reports \in {InsightLedger(s) : s \in LedgerShapes} \cup GapLedgers
    /\ sqlite_sequence = SequenceOfTables
    /\ now = 1
    /\ req = EmptyBag
    /\ resp = NoResp
    /\ issued = {}
    /\ presented = Unchecked
    /\ process = "running"

DoStudentAnalysisStart == NoTokenCheck /\ \E c \in Students : StudentAnalysisStart(c)
DoStudentAnalysisReply == NoTokenCheck /\ \E q \in InFlight : StudentAnalysisReply(q)
DoCompletionPrediction ==
    NoTokenCheck /\ \E c \in Students, b \in {1, FirstNewBatch} : CompletionPrediction(c, b)
DoClassInsightsOfBatch ==
    NoTokenCheck /\ \E c \in users \ Students, b \in {1, 2, FirstNewBatch} : ClassInsights(c, b)

NextInsights ==
    \/ DoStudentAnalysisStart
    \/ DoStudentAnalysisReply
    \/ DoCompletionPrediction
    \/ DoClassInsightsOfBatch

SpecInsights == InitInsights /\ [][NextInsights]_vars

----------------------------------------------------------------------------
(* Properties of the insights *)

\* The daily_reports rows of the caller of the last answer for its batch.
CallerBatchReports == {x \in reports : x.user_id = resp.q.user /\ x.batch_id = resp.q.batchId}

\* C22: the completion prediction answers with a probability out of 95, 80,
\* 60, 40 and 20 decided by the number n of the caller's reports for the batch
\* and their average hours h: 95 if n >= 15 and h >= 6, else 80 if n >= 10 and
\* h >= 5, else 60 if n >= 5 and h >= 4, else 40 if n > 0, else 20.
CompletionByRule ==
    Answered("completionPrediction") =>
        LET n == Cardinality(CallerBatchReports)
            hours == SumHours(CallerBatchReports)      \* h = hours / n
            p == IF n >= 15 /\ hours >= 6 * n THEN 95
                 ELSE IF n >= 10 /\ hours >= 5 * n THEN 80
                 ELSE IF n >= 5 /\ hours >= 4 * n THEN 60
                 ELSE IF n > 0 THEN 40
                 ELSE 20 IN
          /\ resp.status = 200
          /\ <<"completionProbability", p, 0>> \in resp.data
          /\ \A d \in resp.data : d[1] = "completionProbability" => d[2] = p
          /\ <<"reportsSubmitted", n, 0>> \in resp.data

\* 15 reports of 5 or 6 hours, 6 on average but for one, were predicted 80.
CompletionByRuleWitness ==
    /\ Answered("completionPrediction") /\ resp.q.user = 2 /\ resp.q.batchId = FirstNewBatch
    /\ Cardinality(CallerBatchReports) = 16
    /\ SumHours(CallerBatchReports) = 6 * 16 - 1
    /\ <<"completionProbability", 80, 0>> \in resp.data

\* The five probabilities: 15 reports of 6 hours, 10 of 5, 5 of 4, 15 of 3, none.
Completion95Witness ==
    /\ Answered("completionPrediction")
    /\ Cardinality(CallerBatchReports) = 15 /\ SumHours(CallerBatchReports) = 6 * 15
    /\ <<"completionProbability", 95, 0>> \in resp.data

Completion80Witness ==
    /\ Answered("completionPrediction")
    /\ Cardinality(CallerBatchReports) = 10 /\ SumHours(CallerBatchReports) = 5 * 10
    /\ <<"completionProbability", 80, 0>> \in resp.data

Completion60Witness ==
    /\ Answered("completionPrediction")
    /\ Cardinality(CallerBatchReports) = 5 /\ SumHours(CallerBatchReports) = 4 * 5
    /\ <<"completionProbability", 60, 0>> \in resp.data

Completion40Witness ==
    /\ Answered("completionPrediction")
    /\ Cardinality(CallerBatchReports) = 15 /\ SumHours(CallerBatchReports) = 3 * 15
    /\ <<"completionProbability", 40, 0>> \in resp.data

Completion20Witness ==
    /\ Answered("completionPrediction")
    /\ CallerBatchReports = {}
    /\ <<"completionProbability", 20, 0>> \in resp.data

\* The users enrolled in the batch of the last answer, and the number of
\* reports of user u for that batch.
EnrolledInAnsweredBatch == {e.user_id : e \in {y \in enrollments : y.batch_id = resp.q.batchId}}

ReportsForAnsweredBatch(u) ==
    Cardinality({x \in reports : x.user_id = u /\ x.batch_id = resp.q.batchId})

\* C23: the class insights of a batch list exactly the users enrolled in it,
\* each with the number n of that user's reports for that batch, the level
\* High if n >= 15, Medium if 10 <= n < 15 and Low if n < 10, and
\* needsAttention exactly when n < 5.
ClassInsightsByRule ==
    (Answered("classInsights") /\ resp.status = 200) =>
        /\ {d[2] : d \in {x \in resp.data : x[1] = "student"}} = EnrolledInAnsweredBatch
        /\ <<"totalStudents", Cardinality(EnrolledInAnsweredBatch), 0>> \in resp.data
        /\ \A d \in resp.data :
              d[1] \in {"student", "High", "Medium", "Low", "needsAttention"} =>
                 d[2] \in EnrolledInAnsweredBatch /\ d[3] = ReportsForAnsweredBatch(d[2])
        /\ \A u \in EnrolledInAnsweredBatch :
              LET n == ReportsForAnsweredBatch(u) IN
                /\ <<"student", u, n>> \in resp.data
                /\ <<"High", u, n>> \in resp.data <=> n >= 15
                /\ <<"Medium", u, n>> \in resp.data <=> (10 <= n /\ n < 15)
                /\ <<"Low", u, n>> \in resp.data <=> n < 10
                /\ <<"needsAttention", u, n>> \in resp.data <=> n < 5

\* A class of student 2 with 14 reports, Medium, and student 3 with 4, Low and
\* in need of attention; student 2 has other reports for batch 1.
ClassInsightsByRuleWitness ==
    /\ Answered("classInsights") /\ resp.status = 200 /\ resp.q.batchId = FirstNewBatch
    /\ <<"Medium", 2, 14>> \in resp.data /\ <<"needsAttention", 2, 14>> \notin resp.data
    /\ <<"Low", 3, 4>> \in resp.data /\ <<"needsAttention", 3, 4>> \in resp.data
    /\ \E x \in reports : x.user_id = 2 /\ x.batch_id = 1

\* The levels at their borders: 15 is High, 10 Medium, 9 Low, 5 needs no attention.
ClassHighWitness ==
    /\ Answered("classInsights") /\ <<"High", 2, 15>> \in resp.data

ClassMediumWitness ==
    /\ Answered("classInsights") /\ <<"Medium", 2, 10>> \in resp.data

ClassLowWitness ==
    /\ Answered("classInsights") /\ <<"Low", 2, 9>> \in resp.data
    /\ <<"needsAttention", 2, 9>> \notin resp.data

ClassNoAttentionWitness ==
    /\ Answered("classInsights") /\ <<"Low", 2, 5>> \in resp.data
    /\ <<"needsAttention", 2, 5>> \notin resp.data

\* A batch nobody is enrolled in has an empty class.
ClassEmptyWitness ==
    /\ Answered("classInsights") /\ resp.status = 200 /\ resp.q.batchId = 2
    /\ resp.data = {<<"totalStudents", 0, 0>>}

\* The reports of the caller of the last answer, their dates, and the number
\* of calendar days from the first to the last of them.
CallerReports == {x \in reports : x.user_id = resp.q.user}

CallerDays == {x.report_date : x \in CallerReports}

CallerSpan ==
    (CHOOSE d \in CallerDays : \A e \in CallerDays : e <= d)
      - (CHOOSE d \in CallerDays : \A e \in CallerDays : d <= e) + 1

\* The consistency of the last answer.
AnsweredConsistency == {d[2] : d \in {x \in resp.data : x[1] = "consistency"}}

\* The statement of C24 as it was made: the consistency of the student
\* analysis is exactly min(total_reports / days_span * 100, 100), 0 without
\* reports, and within 0..100.
ConsistencyIsExactRatio ==
    Answered("studentAnalysis") =>
        \E c \in AnsweredConsistency :
            /\ AnsweredConsistency = {c}
            /\ c \in 0..100
            /\ IF CallerReports = {} THEN c = 0
               ELSE IF Cardinality(CallerReports) >= CallerSpan THEN c = 100
               ELSE c * CallerSpan = Cardinality(CallerReports) * 100

\* C24: the consistency of the student analysis is min(total_reports /
\* days_span * 100, 100) rounded to the nearest whole number, where days_span
\* is the number of calendar days from the user's first to last report date
\* inclusive; a value ending in .5 rounds up, except for the ratios 29/200,
\* 57/200, 113/200 and 23/40, whose value as computed lies below the half
\* and rounds down; it is 0 when the user has no reports and always within
\* 0..100, also when the user reports for several batches on the same day.
ConsistencyIsRoundedRatio ==
    Answered("studentAnalysis") =>
        \E c \in AnsweredConsistency :
            /\ AnsweredConsistency = {c}
            /\ c \in 0..100
            /\ IF CallerReports = {} THEN c = 0
               ELSE IF Cardinality(CallerReports) >= CallerSpan THEN c = 100
               ELSE IF \E k \in {29, 57, 113, 115} :
                          200 * Cardinality(CallerReports) = k * CallerSpan
               THEN 2 * c * CallerSpan = 200 * Cardinality(CallerReports) - CallerSpan
               ELSE /\ 2 * c * CallerSpan <= 200 * Cardinality(CallerReports) + CallerSpan
                    /\ 200 * Cardinality(CallerReports) + CallerSpan < 2 * (c + 1) * CallerSpan

\* Student 2 has 2 reports over 3 days and gets 67.
ConsistencyIsRoundedRatioWitness ==
    /\ Answered("studentAnalysis") /\ resp.q.user = 2
    /\ Cardinality(CallerReports) = 2 /\ CallerSpan = 3
    /\ AnsweredConsistency = {67}

\* 5 reports over 9 days give 56; 4 reports over 4 days and 2 more for another
\* batch on days 1 and 2 give 100; no report gives 0; 16 reports over 31 days
\* give 52.
ConsistencyHalfWayWitness ==
    /\ Answered("studentAnalysis")
    /\ Cardinality(CallerReports) = 5 /\ CallerSpan = 9
    /\ AnsweredConsistency = {56}

ConsistencySeveralBatchesWitness ==
    /\ Answered("studentAnalysis")
    /\ Cardinality(CallerReports) = 6 /\ CallerSpan = 4
    /\ Cardinality({x.batch_id : x \in CallerReports}) = 2
    /\ AnsweredConsistency = {100}

ConsistencyNoReportWitness ==
    /\ Answered("studentAnalysis") /\ CallerReports = {}
    /\ AnsweredConsistency = {0}

\* 2 reports over 16 days are 12.5 in a hundred and give 13.
ConsistencyHalfWitness ==
    /\ Answered("studentAnalysis")
    /\ Cardinality(CallerReports) = 2 /\ CallerSpan = 16
    /\ AnsweredConsistency = {13}

\* 23 reports over 40 days are 57.5 in a hundred and give 57: the double is
\* 57.49999999999999.  21 reports over 40 days are 52.5, also as a double, and
\* give 53.  29 reports over 200 days give 14.
ConsistencyBelowHalfWitness ==
    /\ Answered("studentAnalysis")
    /\ Cardinality(CallerReports) = 23 /\ CallerSpan = 40
    /\ AnsweredConsistency = {57}

ConsistencyExactHalfWitness ==
    /\ Answered("studentAnalysis")
    /\ Cardinality(CallerReports) = 21 /\ CallerSpan = 40
    /\ AnsweredConsistency = {53}

ConsistencyTwoHundredDaysWitness ==
    /\ Answered("studentAnalysis")
    /\ Cardinality(CallerReports) = 29 /\ CallerSpan = 200
    /\ AnsweredConsistency = {14}

ConsistencyLongSpanWitness ==
    /\ Answered("studentAnalysis")
    /\ Cardinality(CallerReports) = 16 /\ CallerSpan = 31
    /\ AnsweredConsistency = {52}

----------------------------------------------------------------------------
(* The batch recommendations, with enrollments going on *)

\* Four batches created after the samples: 9 and 12 open with two seats, 10
\* completed, 11 open with one seat.
CreatedBatches ==
    {ReportBatch,
     [id |-> FirstNewBatch + 1, instructor_id |-> 4, status |-> "completed", max_participants |-> Num(2)],
     [id |-> FirstNewBatch + 2, instructor_id |-> 4, status |-> "active", max_participants |-> Num(1)],
     [id |-> FirstNewBatch + 3, instructor_id |-> 1, status |-> "upcoming", max_participants |-> Num(2)],
     [id |-> FirstNewBatch + 4, instructor_id |-> 4, status |-> "active", max_participants |-> Str]}

\* Student 2 is enrolled in the first k sample batches; student 3 may be
\* enrolled in batch 11, which is full then.
EnrolledSamples == {0, 2, 7, 8}

InitRecommend ==
    /\ users = SeedUsers
    /\ batches = sampleBatches \cup CreatedBatches
    /\ \E k \in EnrolledSamples, taken \in BOOLEAN :
         enrollments = {[id |-> i, user_id |-> 2, batch_id |-> i] : i \in 1..k}
                         \cup (IF taken
                               THEN {[id |-> k + 1, user_id |-> 3, batch_id |-> FirstNewBatch + 2]}
                               ELSE {})
    /\ reports = {}
    /\ sqlite_sequence = SequenceOfTables
    /\ now = 0
    /\ req = EmptyBag
    /\ resp = NoResp
    /\ issued = {}
    /\ presented = Unchecked
    /\ process = "running"

DoRecommendEnrollStart == NoTokenCheck /\ \E c \in Students : EnrollStart(c, FirstNewBatch)
DoRecommendStart == NoTokenCheck /\ \E c \in Students : RecommendStart(c)
DoRecommendGetBatches == NoTokenCheck /\ \E q \in InFlight : RecommendGetBatches(q)

NextRecommend ==
    \/ DoRecommendEnrollStart
    \/ DoEnrollGetBatch
    \/ DoEnrollGetCount
    \/ DoEnrollInsert
    \/ DoRecommendStart
    \/ DoRecommendGetBatches

SpecRecommend == InitRecommend /\ [][NextRecommend]_vars

\* The batch ids of the last answer, and the first three ids of a set.
RecommendedIds == {d[3] : d \in {x \in resp.data : x[1] = "recommendation"}}

\* max_participants minus the enrollment count is greater than 0; it is no
\* number when max_participants is a text
SeatLeft(x) == x.max_participants.t = "num" /\ x.max_participants.n - EnrollmentCount(x.id) > 0

FirstThree(ids) == {b \in ids : Cardinality({x \in ids : x <= b}) <= 3}

InListOrder ==
    \A d \in resp.data :
        d[1] = "recommendation" => d[2] = Cardinality({x \in RecommendedIds : x <= d[3]})

\* The statement of C25 as it was made: the recommendations are, in list
\* order and capped to the first 3, the batches the user is not enrolled in
\* and that have a seat left.
RecommendsEveryFreeBatch ==
    Answered("batchRecommendations") =>
        /\ RecommendedIds =
             FirstThree({b.id : b \in {x \in batches :
                                         /\ EnrollmentRows(resp.q.user, x.id) = {}
                                         /\ SeatLeft(x)}})
        /\ InListOrder

\* C25: the recommendations are, in list order and capped to the first 3, the
\* active or upcoming batches the user was not enrolled in when the request
\* read the user's enrollments and that have a seat left; no batch of that
\* enrollment list and no full batch is ever returned.
RecommendsOpenFreeBatches ==
    Answered("batchRecommendations") =>
        /\ RecommendedIds =
             FirstThree({b.id : b \in {x \in batches :
                                         /\ x.status \in {"active", "upcoming"}
                                         /\ x.id \notin resp.q.ids
                                         /\ SeatLeft(x)}})
        /\ InListOrder
        /\ \A b \in batches :
              (b.id \in resp.q.ids \/ ~SeatLeft(b)) =>
                 b.id \notin RecommendedIds

\* Student 2, enrolled in all the samples, is recommended batches 9 and 12:
\* batch 10 is completed and batch 11 is full.
RecommendsOpenFreeBatchesWitness ==
    /\ Answered("batchRecommendations") /\ resp.q.user = 2
    /\ resp.q.ids = 1..Len(SampleCapacity)
    /\ EnrollmentCount(FirstNewBatch + 2) = 1
    /\ RecommendedIds = {FirstNewBatch, FirstNewBatch + 3}

\* Batch 13, whose max_participants is a text, is not recommended to student
\* 2, who is recommended two batches only.
RecommendsNoTextCapacityWitness ==
    /\ Answered("batchRecommendations") /\ resp.q.user = 2
    /\ EnrollmentRows(2, FirstNewBatch + 4) = {}
    /\ RecommendedIds = {FirstNewBatch, FirstNewBatch + 3}

\* The cut to three: student 2, enrolled in seven samples, is recommended
\* batches 8, 9 and 11 and not batch 12.
RecommendsThreeWitness ==
    /\ Answered("batchRecommendations") /\ resp.q.user = 2
    /\ RecommendedIds = {FirstNewBatch - 1, FirstNewBatch, FirstNewBatch + 2}
    /\ EnrollmentCount(FirstNewBatch + 3) = 0

\* Batch 9 has filled up and is not recommended to student 3 any more.
RecommendsNoFullBatchWitness ==
    /\ Answered("batchRecommendations")
    /\ EnrollmentCount(FirstNewBatch) = 2
    /\ FirstNewBatch \notin resp.q.ids /\ FirstNewBatch \notin RecommendedIds

\* Student 2 enrolled in batch 9 while the recommendations were under way and
\* is recommended batch 9.
RecommendsStaleWitness ==
    /\ Answered("batchRecommendations") /\ resp.q.user = 2
    /\ EnrollmentRows(2, FirstNewBatch) # {}
    /\ FirstNewBatch \in RecommendedIds

----------------------------------------------------------------------------
(* Storage calls that fail: the callback of the call runs with an error.    *)

MaxFailures == 1     \* storage calls of one request that fail

\* The enrollment when its storage call fails: the batch read answers 404,
\* the count callback reads result.count of no result and throws, the insert
\* answers 500.
EnrollGetBatchFailed(q) ==
    /\ q.kind = "enroll" /\ q.pc = "getBatch"
    /\ req' = Others(q)
    /\ resp' = Response([q EXCEPT !.failed = @ \cup {"getBatch"}], 404, "Batch not found")
    /\ UNCHANGED <<users, batches, enrollments, reports, now, process, sqlite_sequence>>

EnrollGetCountFailed(q) ==
    /\ q.kind = "enroll" /\ q.pc = "getCount"
    /\ Uncaught([q EXCEPT !.failed = @ \cup {"getCount"}], "TypeError")
    /\ UNCHANGED <<users, batches, enrollments, reports, now, sqlite_sequence>>

EnrollInsertFailed(q) ==
    /\ q.kind = "enroll" /\ q.pc = "insert"
    /\ req' = Others(q)
    /\ resp' = Response([q EXCEPT !.failed = @ \cup {"insert"}], 500, "Enrollment failed")
    /\ UNCHANGED <<users, batches, enrollments, reports, now, process, sqlite_sequence>>

\* POST /api/register: bcrypt.hash rejects and the catch answers; the insert
\* fails with an error that is no UNIQUE violation.
RegisterHashFailed(q) ==
    /\ q.kind = "register" /\ q.pc = "insert"
    /\ req' = Others(q)
    /\ resp' = Response([q EXCEPT !.failed = @ \cup {"hash"}], 500, "Server error")
    /\ NoTokenCheck
    /\ UNCHANGED <<users, batches, enrollments, reports, now, process, sqlite_sequence>>

RegisterInsertFailed(q) ==
    /\ q.kind = "register" /\ q.pc = "insert"
    /\ req' = Others(q)
    /\ resp' = Response([q EXCEPT !.failed = @ \cup {"insert"}], 500, "Registration failed")
    /\ NoTokenCheck
    /\ UNCHANGED <<users, batches, enrollments, reports, now, process, sqlite_sequence>>

\* POST /api/login: if (err) of the users read
LoginGetUserFailed(q) ==
    /\ q.kind = "login" /\ q.pc = "getUser"
    /\ req' = Others(q)
    /\ resp' = Response([q EXCEPT !.failed = @ \cup {"getUser"}], 500, "Server error")
    /\ NoTokenCheck
    /\ UNCHANGED <<users, batches, enrollments, reports, now, process, sqlite_sequence>>

\* POST /api/reports: err || !enrollment of the enrollment read, if (err) of
\* the upsert
ReportGetEnrollmentFailed(q) ==
    /\ q.kind = "report" /\ q.pc = "getEnrollment"
    /\ req' = Others(q)
    /\ resp' = Response([q EXCEPT !.failed = @ \cup {"getEnrollment"}], 403,
                        "Not enrolled in this batch")
    /\ UNCHANGED <<users, batches, enrollments, reports, now, process, sqlite_sequence>>

ReportUpsertFailed(q) ==
    /\ q.kind = "report" /\ q.pc = "upsert"
    /\ req' = Others(q)
    /\ resp' = Response([q EXCEPT !.failed = @ \cup {"upsert"}], 500, "Failed to submit report")
    /\ UNCHANGED <<users, batches, enrollments, reports, now, process, sqlite_sequence>>

\* POST /api/batches: if (err) of the insert
CreateBatchInsertFailed(q) ==
    /\ q.kind = "createBatch" /\ q.pc = "insert"
    /\ req' = Others(q)
    /\ resp' = Response([q EXCEPT !.failed = @ \cup {"insert"}], 500, "Failed to create batch")
    /\ UNCHANGED <<users, batches, enrollments, reports, now, process, sqlite_sequence>>

\* GET /api/ai/batch-recommendations: if (err) return callback(err) of the
\* batches query, which the route answers with 500
RecommendGetBatchesFailed(q) ==
    /\ q.kind = "batchRecommendations" /\ q.pc = "getBatches"
    /\ req' = Others(q)
    /\ resp' = Response([q EXCEPT !.failed = @ \cup {"getBatches"}], 500,
                        "Failed to generate recommendations")
    /\ UNCHANGED <<users, batches, enrollments, reports, now, process, sqlite_sequence>>

\* GET /api/ai/student-analysis: the callback of the challenges query does
\* not read err; extractCommonChallenges and generateRecommendations take
\* the missing rows for no challenges and the analysis is answered
StudentAnalysisReplyFailed(q) ==
    /\ q.kind = "studentAnalysis" /\ q.pc = "getChallenges"
    /\ req' = Others(q)
    /\ resp' = [Response([q EXCEPT !.failed = @ \cup {"getChallenges"}], 200, "")
                  EXCEPT !.data = Analysis(q.stats)]
    /\ UNCHANGED <<users, batches, enrollments, reports, now, process, sqlite_sequence>>

\* The lists: GET /api/batches with its status filter ("" when absent), GET
\* /api/my-batches and GET /api/batches/:batchId/participants, each a single
\* query, as <<name, id, participant_count>>.
BatchList(status) ==
    {<<"batch", b.id, EnrollmentCount(b.id)>> :
        b \in {x \in batches : status \in {"", "all"} \/ x.status = status}}

GetBatches(c, status) == ReadReply("batches", c, 0, BatchList(status))

MyBatches(c) ==
    ReadReply("myBatches", c, 0,
              {<<"batch", b.id, EnrollmentCount(b.id)>> :
                  b \in {x \in batches : EnrollmentRows(c.id, x.id) # {}}})

Participants(c, b) ==
    ReadReply("participants", c, b, {<<"participant", u.id, 0>> : u \in ClassOf(b)})

\* A read that fails answers 500 with the message of its route: the single
\* query of a list, of an export, of the prediction and of the class
\* insights, and the first query of the student analysis and of the
\* recommendations.
ReadFailures ==
    {<<"batches", "Failed to fetch batches">>,
     <<"myBatches", "Failed to fetch batches">>,
     <<"participants", "Failed to fetch participants">>,
     <<"getReports", "Failed to fetch reports">>,
     <<"studentAnalysis", "Failed to analyze progress">>,
     <<"batchRecommendations", "Failed to generate recommendations">>,
     <<"completionPrediction", "Failed to predict completion">>}

StaffReadFailures ==
    {<<"exportUsers", "Failed to export users">>,
     <<"exportReports", "Failed to export reports">>,
     <<"classInsights", "Failed to get class insights">>}

ReadFailed(kind, c, e) ==
    /\ process = "running"
    /\ resp' = Response([NoReq EXCEPT !.kind = kind, !.user = c.id, !.role = c.role,
                                      !.failed = {kind}], 500, e)
    /\ req' = BagOfAll(NotSolo, req)
    /\ UNCHANGED <<users, batches, enrollments, reports, now, process, sqlite_sequence>>

----------------------------------------------------------------------------
(* initializeDatabase, run at every start of the process.  Its statements   *)
(* are queued when the database opens, before any statement of a request:   *)
(* the start and the INSERT OR IGNORE of the admin are one step; the count  *)
(* of the batches with its callback is a step; each insert of a sample      *)
(* batch is a step.  The bootstrap under way is kept with the requests in   *)
(* flight: pc is its position, count the next sample batch to insert,       *)
(* count0 the count it has read.                                            *)

\* INSERT OR IGNORE INTO users ... VALUES ('admin', 'admin@training.com', ...):
\* ignored when the username or the email is taken
\* seq is what sqlite_sequence holds for users: the statement draws seq + 1
\* whether or not it is ignored
SeedAdmin(us, seq) ==
    IF \E u \in us : u.username = AdminUser.username \/ u.email = AdminUser.email
    THEN us
    ELSE us \cup {[AdminUser EXCEPT !.id = seq + 1]}

\* !err && row.count === 0
SampleDataAlways(err, count) == TRUE
SampleDataNeeded(err, count) == ~err /\ count = 0

Bootstrap(pc) == [NoReq EXCEPT !.kind = "bootstrap", !.pc = pc]

\* The process starts: what was in flight is lost, the admin is seeded.
Restart ==
    /\ users' = SeedAdmin(users, sqlite_sequence.users)
    /\ sqlite_sequence' = Drawn("users", 1)
    /\ req' = SetToBag({Bootstrap("count")})
    /\ resp' = Response(Bootstrap("count"), 0, "")
    /\ process' = "running"
    /\ UNCHANGED <<batches, enrollments, reports, now>>

\* db.get('SELECT COUNT(*) as count FROM batches') and its callback
BootstrapCount(q, err) ==
    /\ q.kind = "bootstrap" /\ q.pc = "count"
    /\ LET count == Cardinality(batches) IN
         IF SampleDataNeeded(err, count)
         THEN LET q2 == [q EXCEPT !.pc = "insert", !.count = 1, !.count0 = count] IN
                /\ req' = Others(q) (+) SetToBag({q2})
                /\ resp' = Response(q2, 0, "")
         ELSE /\ req' = Others(q)
              /\ resp' = Response([q EXCEPT !.pc = "done", !.count0 = count], 0, "")
    /\ UNCHANGED <<users, batches, enrollments, reports, now, process, sqlite_sequence>>

\* insertSampleData: stmt.run of the next sample batch
InsertSample(q) ==
    /\ q.kind = "bootstrap" /\ q.pc = "insert"
    /\ batches' = batches \cup
          {[id |-> NextId("batches"), instructor_id |-> 1,
            status |-> IF q.count <= 6 THEN "active" ELSE "upcoming",
            max_participants |-> Num(SampleCapacity[q.count])]}
    /\ LET q2 == IF q.count = Len(SampleCapacity)
                 THEN [q EXCEPT !.pc = "done"]
                 ELSE [q EXCEPT !.count = @ + 1] IN
         /\ req' = Others(q) (+) (IF q2.pc = "done" THEN EmptyBag ELSE SetToBag({q2}))
         /\ resp' = Response(q2, 0, "")
    /\ sqlite_sequence' = Drawn("batches", 1)
    /\ UNCHANGED <<users, enrollments, reports, now, process>>

DoBootstrapCount ==
    NoTokenCheck /\ \E q \in InFlight, err \in BOOLEAN : BootstrapCount(q, err)

\* The process that has ended is started again.
DoStartAgain ==
    /\ NoTokenCheck
    /\ process = "ended"
    /\ sqlite_sequence.users < MaxId(SeedUsers) + MaxSequence
    /\ Restart

----------------------------------------------------------------------------
(* The reads, one request at a time, and an enrollment *)

ReadsLedgers == {{}, {InsightReport(1, 3, FirstNewBatch, 1, 2),
                      InsightReport(2, 3, FirstNewBatch, 2, 3)}}

InitReads ==
    /\ users = SeedUsers
    /\ batches = sampleBatches \cup {ReportBatch}
    /\ enrollments = {[id |-> 1, user_id |-> 3, batch_id |-> FirstNewBatch]}
    /\ reports \in ReadsLedgers
    /\ sqlite_sequence = SequenceOfTables
    /\ now \in {1, 9}
    /\ req = EmptyBag
    /\ resp = NoResp
    /\ issued = {}
    /\ presented = Unchecked
    /\ process = "running"

\* Whether one more storage call of request q may fail.
MayFail(q) == {FALSE} \cup (IF Cardinality(q.failed) < MaxFailures THEN {TRUE} ELSE {})

Callers == {u \in SeedUsers : u.id \in {2, 4}}

DoStatsStart == NoTokenCheck /\ Quiet /\ \E c \in Callers : StatsStart(c)
DoAdminStatsStart == NoTokenCheck /\ Quiet /\ \E c \in Callers : AdminStatsStart(c)
DoExportAllStart == NoTokenCheck /\ Quiet /\ \E c \in {AdminUser} \cup Callers : ExportAllStart(c)
DoFanInCallback ==
    NoTokenCheck /\ \E q \in InFlight, key \in AdminStatsKeys \cup ExportAllKeys :
                       \E err \in MayFail(q) : FanInCallback(q, key, err)
DoReadsEnrollStart == NoTokenCheck /\ Quiet /\ EnrollStart(UserById(2), FirstNewBatch)
DoEnrollGetBatchFailed ==
    NoTokenCheck /\ \E q \in InFlight : TRUE \in MayFail(q) /\ EnrollGetBatchFailed(q)
DoEnrollGetCountFailed ==
    NoTokenCheck /\ \E q \in InFlight : TRUE \in MayFail(q) /\ EnrollGetCountFailed(q)
DoEnrollInsertFailed ==
    NoTokenCheck /\ \E q \in InFlight : TRUE \in MayFail(q) /\ EnrollInsertFailed(q)
DoGetBatches ==
    NoTokenCheck /\ Quiet /\ \E c \in Callers, status \in {"", "all", "upcoming"} : GetBatches(c, status)
DoMyBatches == NoTokenCheck /\ Quiet /\ \E c \in Students : MyBatches(c)
DoParticipants == NoTokenCheck /\ Quiet /\ \E c \in Callers : Participants(c, FirstNewBatch)
DoReadFailed ==
    /\ NoTokenCheck /\ Quiet
    /\ \/ \E c \in Callers, f \in ReadFailures : ReadFailed(f[1], c, f[2])
       \/ \E f \in StaffReadFailures : ReadFailed(f[1], UserById(4), f[2])
DoRecommendGetBatchesFailed ==
    NoTokenCheck /\ \E q \in InFlight : TRUE \in MayFail(q) /\ RecommendGetBatchesFailed(q)
DoStudentAnalysisReplyFailed ==
    NoTokenCheck /\ \E q \in InFlight : TRUE \in MayFail(q) /\ StudentAnalysisReplyFailed(q)
DoReadsAnalysisStart == NoTokenCheck /\ Quiet /\ \E c \in Students : StudentAnalysisStart(c)
DoReadsRecommendStart == NoTokenCheck /\ Quiet /\ \E c \in Students : RecommendStart(c)
DoReadsPrediction == NoTokenCheck /\ Quiet /\ CompletionPrediction(UserById(3), FirstNewBatch)
DoReadsInsights == NoTokenCheck /\ Quiet /\ ClassInsights(UserById(4), FirstNewBatch)
DoReadsExports ==
    NoTokenCheck /\ Quiet /\ (ExportUsers(UserById(4)) \/ ExportReports(UserById(4)))
DoReadsGetReports ==
    NoTokenCheck /\ Quiet /\ \E c \in Callers : GetReports(c, NoQuery)

NextReads ==
    \/ DoStatsStart
    \/ DoAdminStatsStart
    \/ DoExportAllStart
    \/ DoFanInCallback
    \/ DoReadsEnrollStart
    \/ DoEnrollGetBatch
    \/ DoEnrollGetCount
    \/ DoEnrollInsert
    \/ DoEnrollGetBatchFailed
    \/ DoEnrollGetCountFailed
    \/ DoEnrollInsertFailed
    \/ DoGetBatches
    \/ DoMyBatches
    \/ DoParticipants
    \/ DoReadFailed
    \/ DoReadsAnalysisStart
    \/ DoStudentAnalysisReply
    \/ DoStudentAnalysisReplyFailed
    \/ DoReadsRecommendStart
    \/ DoRecommendGetBatches
    \/ DoRecommendGetBatchesFailed
    \/ DoReadsPrediction
    \/ DoReadsInsights
    \/ DoReadsExports
    \/ DoReadsGetReports
    \/ DoStartAgain
    \/ DoBootstrapCount

SpecReads == InitReads /\ [][NextReads]_vars

----------------------------------------------------------------------------
(* The writes, the login, /api/stats and the export of all tables, one      *)
(* request at a time, with storage calls that fail                          *)

InitFaults ==
    /\ users = SeedUsers
    /\ batches = sampleBatches \cup {ReportBatch}
    /\ enrollments = {[id |-> 1, user_id |-> 3, batch_id |-> FirstNewBatch]}
    /\ reports = {FirstReport}
    /\ sqlite_sequence = SequenceOfTables
    /\ now = 1
    /\ req = EmptyBag
    /\ resp = NoResp
    /\ issued = {}
    /\ presented = Unchecked
    /\ process = "running"

\* Bob reports on day 1, for which he has a report, and on day 2.
FaultsSubmissions == {Body(Content("t2", "c2", Num(3), "n2"), FirstNewBatch, d) : d \in {1, 2}}

DoFaultsStatsStart == NoTokenCheck /\ Quiet /\ StatsStart(UserById(2))
DoFaultsExportAllStart == NoTokenCheck /\ Quiet /\ ExportAllStart(AdminUser)
DoFaultsReportStart ==
    /\ NoTokenCheck /\ Quiet
    /\ sqlite_sequence.daily_reports < MaxSequence
    /\ \E body \in FaultsSubmissions : ReportStart(UserById(3), body)
DoReportGetEnrollmentFailed ==
    NoTokenCheck /\ \E q \in InFlight : TRUE \in MayFail(q) /\ ReportGetEnrollmentFailed(q)
DoReportUpsertFailed ==
    NoTokenCheck /\ \E q \in InFlight : TRUE \in MayFail(q) /\ ReportUpsertFailed(q)
DoFaultsRegisterStart ==
    Quiet /\ RegisterStart(Cred("dave", "dave@x", <<"p", "d">>, "Dave", "student"))
DoRegisterHashFailed == \E q \in InFlight : TRUE \in MayFail(q) /\ RegisterHashFailed(q)
DoRegisterInsertFailed == \E q \in InFlight : TRUE \in MayFail(q) /\ RegisterInsertFailed(q)
DoFaultsLoginStart ==
    /\ Quiet /\ Cardinality(issued) < MaxTokens
    /\ \E cred \in {Cred("alice", "", <<"p", "a">>, "", ""),
                     [Cred("alice", "", <<"1", "2">>, "", "")
                         EXCEPT !.typeofPassword = "number"]} : LoginStart(cred)
DoLoginGetUserFailed == \E q \in InFlight : TRUE \in MayFail(q) /\ LoginGetUserFailed(q)
DoFaultsCreateBatch ==
    /\ NoTokenCheck /\ Quiet
    /\ MaxId(batches) < FirstNewBatch + MaxNewBatches
    /\ CreateBatchStart(UserById(4), TRUE, "active", Num(2))
DoCreateBatchInsertFailed ==
    NoTokenCheck /\ \E q \in InFlight : TRUE \in MayFail(q) /\ CreateBatchInsertFailed(q)

NextFaults ==
    \/ DoFaultsStatsStart
    \/ DoFaultsExportAllStart
    \/ DoFanInCallback
    \/ DoReadsEnrollStart
    \/ DoEnrollGetBatch
    \/ DoEnrollGetCount
    \/ DoEnrollInsert
    \/ DoEnrollGetBatchFailed
    \/ DoEnrollGetCountFailed
    \/ DoEnrollInsertFailed
    \/ DoFaultsReportStart
    \/ DoReportGetEnrollment
    \/ DoReportUpsert
    \/ DoReportGetEnrollmentFailed
    \/ DoReportUpsertFailed
    \/ DoFaultsRegisterStart
    \/ DoRegisterInsert
    \/ DoRegisterHashFailed
    \/ DoRegisterInsertFailed
    \/ DoFaultsLoginStart
    \/ DoLoginGetUser
    \/ DoLoginCompare
    \/ DoLoginGetUserFailed
    \/ DoFaultsCreateBatch
    \/ DoCreateBatchInsert
    \/ DoCreateBatchInsertFailed
    \/ DoReadFailed
    \/ DoReadsAnalysisStart
    \/ DoStudentAnalysisReply
    \/ DoStudentAnalysisReplyFailed
    \/ DoReadsRecommendStart
    \/ DoRecommendGetBatches
    \/ DoRecommendGetBatchesFailed
    \/ DoStartAgain
    \/ DoBootstrapCount

SpecFaults == InitFaults /\ [][NextFaults]_vars

----------------------------------------------------------------------------
(* Properties of the reads *)

\* The operations that write: enroll, report, create batch, register.
WriteKinds == {"enroll", "report", "createBatch", "register"}

\* C21: the insights (student analysis, batch recommendations, completion
\* prediction, class insights) and the lists, queries, statistics and exports
\* leave the users, the batches, the enrollments and the reports as they
\* are: a step that changes one of the four tables is a step of an enroll, a
\* report, a batch creation or a registration, and the step that answers a
\* read changes none.
ReadsLeaveTables ==
    [][/\ (users' # users \/ batches' # batches
             \/ enrollments' # enrollments \/ reports' # reports) =>
              resp'.q.kind \in WriteKinds
       /\ (resp'.q.kind \notin WriteKinds \/ resp' = NoResp) =>
              /\ users' = users /\ batches' = batches
              /\ enrollments' = enrollments /\ reports' = reports]_vars

\* Student 3 got the analysis of two reports, and the two reports are there.
ReadsLeaveTablesWitness ==
    /\ Answered("studentAnalysis") /\ resp.q.user = 3
    /\ <<"totalReports", 2, 0>> \in resp.data
    /\ Cardinality({x \in reports : x.user_id = 3}) = 2

\* The other reads have answered.
RecommendationsReadWitness ==
    /\ Answered("batchRecommendations") /\ resp.q.user = 3
    /\ <<"recommendation", 1, 1>> \in resp.data

PredictionReadWitness ==
    /\ Answered("completionPrediction") /\ <<"completionProbability", 40, 0>> \in resp.data

InsightsReadWitness ==
    /\ Answered("classInsights") /\ <<"Low", 3, 2>> \in resp.data

StatsReadWitness ==
    /\ Answered("stats") /\ resp.status = 200 /\ <<"totalReports", 2, 0>> \in resp.data

AdminStatsReadWitness ==
    /\ Answered("adminStats") /\ resp.status = 200
    /\ <<"avgHours", 5, 2>> \in resp.data /\ <<"recentReports", 1, 0>> \in resp.data

ListReadWitness ==
    /\ Answered("batches") /\ resp.data = {<<"batch", 7, 0>>, <<"batch", 8, 0>>}

ParticipantsReadWitness ==
    /\ Answered("participants") /\ <<"participant", 2, 0>> \in resp.data

ExportReadWitness ==
    /\ Answered("exportAll") /\ resp.status = 200 /\ <<"totalEnrollments", 2, 0>> \in resp.data

\* C26: a request one of whose storage calls has failed is answered with
\* status 500 and an error message; the failure is not dropped and the
\* request is not left without an answer.
StorageFailureAnswered500 ==
    resp.q.failed # {} => (resp.status = 500 /\ resp.error # "")

\* What the handlers do with a failure: the lists, the login, the
\* registration, the insert of a batch, of an enrollment and of a report
\* answer 500; the batch read of an enrollment answers 404 and the enrollment
\* read of a report 403; the statistics answer 200 without the count that
\* failed and the student analysis 200 as if there were no challenges; the
\* count read of an enrollment and the export of all tables end in an
\* exception and no answer.  The reads of one query, the first query of the
\* student analysis and both queries of the recommendations answer 500.
StorageFailureOutcomes ==
    resp.q.failed # {} =>
        CASE resp.q.kind \in {"stats", "adminStats"} ->
                /\ resp.status = 200
                /\ \A key \in resp.q.failed : \A d \in resp.data : d[1] # key
          [] resp.q.kind = "exportAll" -> resp.status = 0 /\ resp.error = "TypeError"
          [] resp.q.kind = "enroll" ->
                \/ resp.q.failed = {"getBatch"} /\ resp.status = 404
                \/ resp.q.failed = {"getCount"} /\ resp.status = 0 /\ resp.error = "TypeError"
                \/ resp.q.failed = {"insert"} /\ resp.status = 500
          [] resp.q.kind = "studentAnalysis" ->
                \/ resp.q.failed = {"getChallenges"} /\ resp.status = 200
                                                     /\ resp.data = Analysis(resp.q.stats)
                \/ resp.q.failed = {"studentAnalysis"} /\ resp.status = 500
                                                       /\ resp.error = "Failed to analyze progress"
          [] resp.q.kind = "batchRecommendations" ->
                /\ resp.status = 500 /\ resp.error = "Failed to generate recommendations"
                /\ resp.data = {}
          [] resp.q.kind = "report" ->
                \/ resp.q.failed = {"getEnrollment"} /\ resp.status = 403
                \/ resp.q.failed = {"upsert"} /\ resp.status = 500
                                              /\ resp.error = "Failed to submit report"
          [] resp.q.kind = "register" ->
                \/ resp.q.failed = {"hash"} /\ resp.status = 500 /\ resp.error = "Server error"
                \/ resp.q.failed = {"insert"} /\ resp.status = 500
                                              /\ resp.error = "Registration failed"
          [] OTHER -> resp.status = 500 /\ resp.error # ""

\* The count of the reports failed and /api/stats answered 200 without it.
StatsFailureDroppedWitness ==
    /\ Answered("stats") /\ resp.q.failed = {"totalReports"}
    /\ resp.status = 200
    /\ {d[1] : d \in resp.data} = StatsKeys \ {"totalReports"}

\* The count read of an enrollment failed and the request has no answer.
EnrollCountFailureWitness ==
    /\ Answered("enroll") /\ resp.q.failed = {"getCount"}
    /\ resp.status = 0 /\ req = EmptyBag /\ process = "ended"

\* The process had ended and was started again; the INSERT OR IGNORE of the
\* admin drew id 5, and dave, registered after it, has id 6.
RegisterAfterStartAgainWitness ==
    /\ Answered("register") /\ resp.status = 201
    /\ process = "running"
    /\ \E u \in users : u.username = "dave" /\ u.id = MaxId(SeedUsers) + 2

\* A login of alice with the number 12 as password has had no answer and
\* the process has ended.
LoginRejectionEndsProcessWitness ==
    /\ Answered("login") /\ resp.q.cred.username = "alice"
    /\ resp.q.cred.typeofPassword = "number"
    /\ resp.status = 0 /\ process = "ended"

\* AUTOINCREMENT: a submission that updated the report of its day has drawn
\* an id all the same, and the next new report skips it: two reports, the
\* second with id 3.
ReportIdSkippedWitness ==
    /\ Answered("report") /\ resp.status = 200
    /\ Cardinality(reports) = 2 /\ \E r \in reports : r.id = 3

\* The enrollment read of a report failed and the answer is 403; the upsert
\* failed and the answer is 500, the ledger and the sequence as they were.
ReportReadFailureWitness ==
    /\ Answered("report") /\ resp.q.failed = {"getEnrollment"}
    /\ resp.status = 403 /\ resp.error = "Not enrolled in this batch"
    /\ EnrollmentRows(resp.q.user, resp.q.body.batch_id) # {}

ReportUpsertFailureWitness ==
    /\ Answered("report") /\ resp.q.failed = {"upsert"}
    /\ resp.status = 500 /\ resp.error = "Failed to submit report"
    /\ reports = {FirstReport} /\ sqlite_sequence.daily_reports = 1

\* The insert of a registration failed with no UNIQUE violation: 500
\* "Registration failed"; bcrypt.hash rejected: 500 "Server error".
RegisterInsertFailureWitness ==
    /\ Answered("register") /\ resp.q.failed = {"insert"}
    /\ resp.status = 500 /\ resp.error = "Registration failed"
    /\ users = SeedUsers

RegisterHashFailureWitness ==
    /\ Answered("register") /\ resp.q.failed = {"hash"}
    /\ resp.status = 500 /\ resp.error = "Server error"

LoginFailureWitness ==
    /\ Answered("login") /\ resp.q.failed = {"getUser"}
    /\ resp.status = 500 /\ resp.error = "Server error" /\ issued = {}

CreateBatchFailureWitness ==
    /\ Answered("createBatch") /\ resp.q.failed = {"insert"}
    /\ resp.status = 500 /\ resp.error = "Failed to create batch"
    /\ batches = sampleBatches \cup {ReportBatch}

\* The batches query of the recommendations failed and the answer is 500;
\* the challenges query of the student analysis failed and the answer is 200.
RecommendFailureWitness ==
    /\ Answered("batchRecommendations") /\ resp.q.failed = {"getBatches"}
    /\ resp.status = 500 /\ resp.error = "Failed to generate recommendations"
    /\ resp.data = {}

AnalysisFailureDroppedWitness ==
    /\ Answered("studentAnalysis") /\ resp.q.failed = {"getChallenges"}
    /\ resp.status = 200 /\ <<"totalReports", 1, 0>> \in resp.data

\* A read of the export failed and the request has no answer.
ExportFailureWitness ==
    /\ Answered("exportAll") /\ resp.q.failed = {"users"}
    /\ resp.status = 0

\* The number of queries of a statistics route.
NumberOfQueries(kind) == IF kind = "stats" THEN 4 ELSE 10

\* The counts of /api/stats read from the tables.
StatsOfTables ==
    {<<"totalBatches", Cardinality(batches), 0>>,
     <<"activeBatches", Cardinality({b \in batches : b.status = "active"}), 0>>,
     <<"totalEnrollments", Cardinality(enrollments), 0>>,
     <<"totalReports", Cardinality(reports), 0>>}

\* C28: /api/stats and /api/admin/stats issue all their queries and send one
\* response, with the callback of the last query to complete and not before,
\* in whichever order the queries complete; the content is the counts of the
\* tables (of the queries that succeeded), the same for every order.
FanInAnswersOnce ==
    /\ [](\A q \in InFlight :
             q.kind \in {"stats", "adminStats"} =>
                /\ q.pending # {}
                /\ q.completed + Cardinality(q.pending) = NumberOfQueries(q.kind))
    /\ [][(resp'.q.kind \in {"stats", "adminStats"} /\ resp'.status # 403) =>
             /\ resp'.status = 200
             /\ resp'.q.pending = {}
             /\ resp'.q.completed = NumberOfQueries(resp'.q.kind)
             /\ BagCardinality(req') = BagCardinality(req) - 1
             /\ \A q \in BagToSet(req') : q.kind \notin {"stats", "adminStats"}
             /\ resp'.data =
                  IF resp'.q.kind = "stats"
                  THEN {d \in StatsOfTables : d[1] \notin resp'.q.failed}
                  ELSE {AdminStatsResult(key) : key \in AdminStatsKeys \ resp'.q.failed}]_vars

\* /api/stats has answered with its four counts after four callbacks.
FanInAnswersOnceWitness ==
    /\ Answered("stats") /\ resp.status = 200
    /\ resp.q.completed = 4 /\ resp.q.failed = {}
    /\ resp.data = StatsOfTables
    /\ req = EmptyBag

\* Two orders of completion: the count of the batches is the last one to
\* come, or the first one.
FanInBatchesLastWitness ==
    \E q \in InFlight : q.kind = "stats" /\ q.pending = {"totalBatches"} /\ q.completed = 3

FanInBatchesFirstWitness ==
    \E q \in InFlight : q.kind = "stats" /\ q.pending = StatsKeys \ {"totalBatches"}
                              /\ q.completed = 1

\* /api/admin/stats has answered with its ten values after ten callbacks.
FanInAdminStatsWitness ==
    /\ Answered("adminStats") /\ resp.status = 200
    /\ resp.q.completed = 10 /\ resp.q.failed = {}
    /\ Cardinality(resp.data) = 10

----------------------------------------------------------------------------
(* The first start of the process *)

\* The database is new and the process has started for the first time.
InitBootstrap ==
    /\ users = SeedAdmin({}, 0)
    /\ batches = {}
    /\ enrollments = {}
    /\ reports = {}
    /\ sqlite_sequence = SequenceOfTables
    /\ now = 0
    /\ req = SetToBag({Bootstrap("count")})
    /\ resp = NoResp
    /\ issued = {}
    /\ presented = Unchecked
    /\ process = "running"

\* The registrations of the model: a teacher, and two that take the username
\* and the email of the admin.
BootstrapRegistrations ==
    { Cred("carol", "carol@x", <<"p", "c">>, "Carol", "teacher"),
      Cred("admin", "root@x", <<"p", "r">>, "Root", "student"),
      Cred("frank", "admin@training.com", <<"p", "f">>, "Frank", "teacher") }

DoRestart == NoTokenCheck /\ sqlite_sequence.users < MaxSequence /\ Restart
DoInsertSample == NoTokenCheck /\ \E q \in InFlight : InsertSample(q)
DoBootstrapRegisterStart == \E cred \in BootstrapRegistrations : RegisterStart(cred)
DoBootstrapCreateBatch ==
    /\ NoTokenCheck
    /\ Cardinality({b \in batches : b.instructor_id # 1}) + InFlightOf("createBatch") < MaxNewBatches
    /\ \E c \in {u \in users : u.role = "teacher"} : CreateBatchStart(c, TRUE, "active", Num(2))

NextBootstrap ==
    \/ DoRestart
    \/ DoBootstrapCount
    \/ DoInsertSample
    \/ DoBootstrapRegisterStart
    \/ DoRegisterInsert
    \/ DoBootstrapCreateBatch
    \/ DoCreateBatchInsert

SpecBootstrap == InitBootstrap /\ [][NextBootstrap]_vars

----------------------------------------------------------------------------
(* Properties of the bootstrap *)

\* The bootstraps under way at a position.
BootstrapsAt(bag, pc) == {q \in BagToSet(bag) : q.kind = "bootstrap" /\ q.pc = pc}

\* C27: after any number of starts of the process, between the requests,
\* there is exactly one user 'admin' and it has the role admin; sample
\* batches are inserted only by a run that has found the batches table
\* empty; a run that finds a batch inserts none, so that no sample batch is
\* added once a batch exists at the count.
BootstrapIdempotent ==
    /\ [](/\ Cardinality({u \in users : u.username = "admin"}) = 1
          /\ Cardinality({u \in users : u.role = "admin"}) = 1
          /\ \A u \in users : u.username = "admin" => u.role = "admin")
    /\ [](Cardinality({b \in batches : b.instructor_id = 1}) <= Len(SampleCapacity))
    /\ [][(batches' # batches /\ resp'.q.kind = "bootstrap") => resp'.q.count0 = 0]_vars
    /\ [][(BootstrapsAt(req, "count") # {} /\ batches # {}) =>
             BootstrapsAt(req', "insert") = {}]_vars

\* The process has started again on a database with the eight sample batches
\* and a batch of a teacher, and has inserted nothing.
BootstrapIdempotentWitness ==
    /\ resp.q.kind = "bootstrap" /\ resp.q.pc = "done" /\ resp.q.count0 = Len(SampleCapacity) + 1
    /\ Cardinality(batches) = Len(SampleCapacity) + 1
    /\ Cardinality({b \in batches : b.instructor_id = 1}) = Len(SampleCapacity)
    /\ Cardinality({u \in users : u.username = "admin"}) = 1

\* The first run has inserted the eight sample batches.
BootstrapSamplesWitness ==
    /\ resp.q.kind = "bootstrap" /\ resp.q.pc = "done" /\ resp.q.count0 = 0
    /\ batches = sampleBatches

\* A run that stopped after three sample batches was followed by a run that
\* has added none.
BootstrapPartialWitness ==
    /\ resp.q.kind = "bootstrap" /\ resp.q.pc = "done" /\ resp.q.count0 = 3
    /\ Cardinality(batches) = 3

\* AUTOINCREMENT: the ignored insert of the admin at a restart has drawn an
\* id, and the first registration after it has the id 3 in a table of two.
BootstrapIdSkippedWitness ==
    /\ Answered("register") /\ resp.status = 201
    /\ Cardinality(users) = 2 /\ \E u \in users : u.id = 3

\* A registration for the username admin was refused.
BootstrapAdminTakenWitness ==
    /\ Answered("register") /\ resp.q.cred.username = "admin" /\ resp.status = 400
    /\ \E u \in users : u.role = "teacher"

----------------------------------------------------------------------------
(* Properties of the batch creation *)

\* C29: a batch creation stores the max_participants of its body when there
\* is one and 100 only when there is none; every stored batch has a status
\* out of active, upcoming and completed, and a creation with another status
\* stores nothing.
CreateBatchStoresSupplied ==
    /\ [](\A b \in batches : b.status \in {"active", "upcoming", "completed"})
    /\ [][resp'.q.kind = "createBatch" =>
             /\ resp'.q.status \notin {"active", "upcoming", "completed"} => batches' = batches
             /\ resp'.status = 201 =>
                   \E b \in batches' \ batches :
                      /\ batches' = batches \cup {b}
                      /\ b.status = resp'.q.status
                      /\ b.max_participants =
                            IF resp'.q.max_participants = Undef THEN Num(100)
                            ELSE resp'.q.max_participants]_vars

\* What holds of the code: the status is as claimed, and the stored
\* max_participants is the one of the body unless that is absent or 0, and
\* 100 then.
CreateBatchStoresTruthy ==
    /\ [](\A b \in batches : b.status \in {"active", "upcoming", "completed"})
    /\ [][resp'.q.kind = "createBatch" =>
             /\ resp'.q.status \notin {"active", "upcoming", "completed"} => batches' = batches
             /\ resp'.status = 201 =>
                   \E b \in batches' \ batches :
                      /\ batches' = batches \cup {b}
                      /\ b.status = resp'.q.status
                      /\ b.max_participants =
                            IF resp'.q.max_participants \in {Undef, Num(0)} THEN Num(100)
                            ELSE resp'.q.max_participants]_vars

\* A teacher created a batch with max_participants 0 and 100 was stored.
CreateBatchZeroWitness ==
    /\ Answered("createBatch") /\ resp.status = 201
    /\ resp.q.max_participants = Num(0)
    /\ \E b \in batches : b.id = resp.q.batchId /\ b.max_participants = Num(100)

\* A creation with the status 'open' was answered 500 and stored nothing.
CreateBatchBadStatusWitness ==
    /\ Answered("createBatch") /\ resp.q.status = "open"
    /\ resp.status = 500 /\ resp.error = "Failed to create batch"

----------------------------------------------------------------------------
(* Properties of the caller's identity *)

\* C30: an enrollment and a report submission act on the user of the
\* caller's token only, whatever the body and the parameters: the enrollment
\* or report row a request creates or overwrites has that user's id, no row
\* is removed or moved to another user, and the rows of the other users are
\* unchanged.
ActsOnCallerOnly ==
    [][/\ \A e \in enrollments' \ enrollments :
             resp'.q.kind = "enroll" /\ e.user_id = resp'.q.user
       /\ \A x \in reports' \ reports :
             resp'.q.kind = "report" /\ x.user_id = resp'.q.user
       /\ \A x \in reports \ reports' :
             /\ x.user_id = resp'.q.user
             /\ \E y \in reports' : y.id = x.id /\ y.user_id = x.user_id
       /\ enrollments \subseteq enrollments']_vars

\* Student 2 has submitted a report whose body names student 3: the row
\* stored is the one of student 2, and the report of student 3 for the same
\* batch and day is as it was.
ActsOnCallerOnlyWitness ==
    /\ Answered("report") /\ resp.status = 200
    /\ resp.q.user = 2 /\ resp.q.body.user_id = 3
    /\ FirstReport \in reports
    /\ \E x \in reports : x.user_id = 2 /\ x.tasks_completed = "t3"
                             /\ x.batch_id = FirstReport.batch_id
                             /\ x.report_date = FirstReport.report_date

\* Student 2 has overwritten a report of student 2.
OverwritesOwnReportWitness ==
    /\ Answered("report") /\ resp.status = 200 /\ resp.q.user = 2 /\ resp.q.row0
    /\ Cardinality({x \in reports : x.user_id = 2}) = 1
    /\ FirstReport \in reports

\* Student 2 has enrolled, next to student 3.
EnrollsCallerWitness ==
    /\ Answered("enroll") /\ resp.status = 200 /\ resp.q.user = 2
    /\ \E e \in enrollments : e.user_id = 2
    /\ \E e \in enrollments : e.user_id = 3

====
